---- MODULE Spec2Model ----
(***************************************************************************)
(* Droplet: the sorted partition ingest pipeline.                          *)
(*                                                                         *)
(*   WindowHeap        droplet-core/src/window_heap.rs                     *)
(*   GridRow / GridRows droplet-core/src/grid_sample.rs                    *)
(*   GridSinker        droplet-sinker/src/grid_sinker.rs                   *)
(*   SampleSaver       droplet-server/src/sample_saver.rs                  *)
(*   DropletServerImpl droplet-server/src/request_handler.rs               *)
(*                                                                         *)
(* A GridBuffer is modelled by the sequence of the SampleKeys of its rows  *)
(* and by its column-id hash.  Row and slot indices are 0-based as in the  *)
(* code; TLA+ sequences are 1-based, hence the "+ 1" where a Vec is read.  *)
(***************************************************************************)
EXTENDS Naturals, Integers, Sequences, FiniteSets, TLC

(***************************************************************************)
(* Bounds of the model.                                                    *)
(***************************************************************************)
NumBuffers == 8
MaxPush == 3
MaxWindow == 2
MaxBatch == 2

(***************************************************************************)
(* SampleKey: (timestamp, user_id, item_id, request_id).                   *)
(***************************************************************************)
\* 09:00:00, 09:59:59 and 10:00:00 UTC of day 0, and later keys.
K1 == <<32400, 0, 0, 0>>
K2 == <<35999, 0, 0, 0>>
K3 == <<36000, 0, 0, 0>>
K4 == <<36000, 0, 1, 0>>
K5 == <<86399, 0, 0, 1>>

\* The key read from a cell that does not exist: get_u64(..).unwrap_or(0).
ZeroKey == <<0, 0, 0, 0>>

\* Ord for SampleKey: lexicographic on the four fields.
KeyLess(a, b) ==
  \/ a[1] < b[1]
  \/ a[1] = b[1] /\ a[2] < b[2]
  \/ a[1] = b[1] /\ a[2] = b[2] /\ a[3] < b[3]
  \/ a[1] = b[1] /\ a[2] = b[2] /\ a[3] = b[3] /\ a[4] < b[4]

KeyLeq(a, b) == a = b \/ KeyLess(a, b)

(***************************************************************************)
(* GridBuffer (external container), as far as the sort path reads it: the  *)
(* SampleKeys of its rows and its column-id hash.  The input buffers are   *)
(* the first NumBuffers entries of a catalogue.                            *)
(***************************************************************************)
GridBuffer(rows, hash) == [rows |-> rows, hash |-> hash]

\* The column ids behind each column-id hash of the catalogue: hash 0 is the
\* buffer without columns, hash 1 has the sample-key ids first, hash 2 has
\* user_id before timestamp.
ColIds(hash) ==
  IF hash = 0 THEN <<>>
  ELSE IF hash = 1 THEN <<2, 4, 5, 6, 7>>
  ELSE <<4, 2, 5, 6, 7>>

\* SampleKey::get_sample_key_ids.
SampleKeyIds == <<2, 4, 5, 6>>

\* tool::is_keys_equal, the loop over the chunks of four from pos on: the
\* slice a[pos..pos + 4] is out of range when fewer than four elements are
\* left, and the call panics.
RECURSIVE IsKeysEqualFrom(_, _, _)
IsKeysEqualFrom(a, b, pos) ==
  LET n == Len(a)
  IN IF pos >= n
     THEN IF n % 4 # 0 /\ \E i \in (n - (n % 4))..(n - 1) : a[i + 1] # b[i + 1]
          THEN "false"
          ELSE "true"
     ELSE IF pos + 4 > n
          THEN "panic"
          ELSE IF \E i \in pos..(pos + 3) : a[i + 1] # b[i + 1]
               THEN "false"
               ELSE IsKeysEqualFrom(a, b, pos + 4)

\* tool::is_keys_equal.
IsKeysEqual(a, b) ==
  IF Len(a) # Len(b) THEN "false" ELSE IsKeysEqualFrom(a, b, 0)

\* GridRow::is_valid_sample, for a row of gb.
IsValidSample(gb) ==
  IF Len(ColIds(gb.hash)) < 4 THEN FALSE
  ELSE IsKeysEqual(SampleKeyIds, SubSeq(ColIds(gb.hash), 1, 4)) = "true"

BufferSeq ==
  << GridBuffer(<<K1>>, 1),
     GridBuffer(<<K2>>, 1),
     GridBuffer(<<K3>>, 1),
     GridBuffer(<<K1, K2>>, 1),
     GridBuffer(<<K3, K1>>, 1),
     GridBuffer(<<>>, 1),
     GridBuffer(<<>>, 0),
     GridBuffer(<<K1>>, 2),
     GridBuffer(<<K4, K3>>, 1),
     GridBuffer(<<K5>>, 1),
     GridBuffer(<<K2, K5, K5>>, 1) >>

Min2(a, b) == IF a < b THEN a ELSE b

GridBuffers == {BufferSeq[i] : i \in 1..Min2(NumBuffers, Len(BufferSeq))}

Keys == UNION {{gb.rows[i] : i \in 1..Len(gb.rows)} : gb \in GridBuffers}

AllKeys == Keys \cup {ZeroKey}

NumRows(gb) == Len(gb.rows)

\* GridBuffer::new(): no rows, no columns.
EmptyGridBuffer == GridBuffer(<<>>, 0)

\* GridRow::get_sample_key on row `row` of `gb`.
GetSampleKey(gb, row) ==
  IF row < Len(gb.rows) THEN gb.rows[row + 1] ELSE ZeroKey

(***************************************************************************)
(* WindowHeap.                                                             *)
(***************************************************************************)
WindowHeapNew(W, B) ==
  [ window_size         |-> W,
    batch_size          |-> B,
    heap                |-> {},
    available_positions |-> [i \in 1..W |-> W - i],
    elements            |-> <<>>,
    num_rows_left       |-> [i \in 0..(W - 1) |-> 0],
    out_gridbuffers     |-> <<>>,
    gridrows            |-> <<>>,
    col_ids_set         |-> FALSE,
    col_ids_hash        |-> 0 ]

\* A heap entry is <<slot, row>>: GridRow(&elements[slot], row) with its slot.
EntryKey(h, e) == GetSampleKey(h.elements[e[1] + 1], e[2])

\* Reverse((GridRow, usize)): ordered by the row's SampleKey, then the slot.
EntryLeq(h, e, f) ==
  \/ KeyLess(EntryKey(h, e), EntryKey(h, f))
  \/ EntryKey(h, e) = EntryKey(h, f) /\ e[1] <= f[1]

\* The entries BinaryHeap::pop may return: equal (key, slot) pairs are not
\* ordered by the row index.
MinEntries(h) == {e \in h.heap : \A f \in h.heap : EntryLeq(h, e, f)}

\* What a staged GridRow reads when it is materialized.  The GridRow holds
\* the address of elements[slot]; when the slot has been given to another
\* buffer meanwhile, the read is through a stale pointer and yields the row
\* as staged or whatever the slot holds now.
RowOutcomes(h, g) == {g.val, GetSampleKey(h.elements[g.slot + 1], g.row)}

\* GridRows::to_gridbuffer.
ToGridbuffer(h) ==
  IF h.gridrows = <<>>
  THEN {EmptyGridBuffer}
  ELSE { GridBuffer(r, h.elements[h.gridrows[1].slot + 1].hash) :
           r \in { s \in [1..Len(h.gridrows) -> AllKeys] :
                     \A i \in 1..Len(h.gridrows) :
                        s[i] \in RowOutcomes(h, h.gridrows[i]) } }

\* The stage flushed one row late: at more than batch_size rows.
StageRowLate(h, e) ==
  LET h1 == [h EXCEPT !.heap = @ \ {e},
                      !.gridrows = Append(@, [slot |-> e[1], row |-> e[2],
                                              val |-> EntryKey(h, e)])]
  IN IF Len(h1.gridrows) > h1.batch_size
     THEN { [h1 EXCEPT !.out_gridbuffers = Append(@, gb), !.gridrows = <<>>] :
              gb \in ToGridbuffer(h1) }
     ELSE {h1}

\* gridrows.push(gridrow); flush to out_gridbuffers at batch_size.
StageRow(h, e) ==
  LET h1 == [h EXCEPT !.heap = @ \ {e},
                      !.gridrows = Append(@, [slot |-> e[1], row |-> e[2],
                                              val |-> EntryKey(h, e)])]
  IN IF Len(h1.gridrows) >= h1.batch_size
     THEN { [h1 EXCEPT !.out_gridbuffers = Append(@, gb), !.gridrows = <<>>] :
              gb \in ToGridbuffer(h1) }
     ELSE {h1}

\* The new buffer appended to elements instead of stored in the freed slot.
ReuseSlotAppend(h, index, gb) ==
  [h EXCEPT !.elements = Append(@, gb), !.num_rows_left[index] = NumRows(gb)]

\* elements[index] = gridbuffer; num_rows_left[index] = num_rows.
ReuseSlot(h, index, gb) ==
  [h EXCEPT !.elements[index + 1] = gb, !.num_rows_left[index] = NumRows(gb)]

\* The `None` arm of push: pop rows until a slot has no rows left.
RECURSIVE PopUntilFree(_, _)
PopUntilFree(h, gb) ==
  IF h.heap = {}
  THEN {h}
  ELSE UNION { UNION {
         IF h2.num_rows_left[e[1]] = 0
         THEN {ReuseSlot(h2, e[1], gb)}
         ELSE LET h3 == [h2 EXCEPT !.num_rows_left[e[1]] = @ - 1]
              IN IF h3.num_rows_left[e[1]] = 0
                 THEN {ReuseSlot(h3, e[1], gb)}
                 ELSE PopUntilFree(h3, gb)
         : h2 \in StageRow(h, e) } : e \in MinEntries(h) }

\* The `Some(index)` arm of push.
PushFree(h, gb) ==
  LET n     == Len(h.available_positions)
      index == h.available_positions[n]
      h1    == [h EXCEPT !.available_positions = SubSeq(@, 1, n - 1)]
  IN IF index > Len(h1.elements)
     THEN [h |-> h1, ok |-> FALSE]
     ELSE LET h2 == IF index < Len(h1.elements)
                    THEN [h1 EXCEPT !.elements[index + 1] = gb]
                    ELSE [h1 EXCEPT !.elements = Append(@, gb)]
          IN [h  |-> [h2 EXCEPT !.num_rows_left[index] = NumRows(gb),
                                !.heap = @ \cup {<<index, i>> :
                                                   i \in 0..(NumRows(gb) - 1)}],
              ok |-> TRUE]

\* WindowHeap::push: the set of results [h, ok] the call can have.
\* col_ids_set stands for !col_ids.is_empty(): the column ids are captured
\* whenever the captured ones are empty.
Push(h, gb) ==
  LET h0 == IF ~h.col_ids_set
            THEN [h EXCEPT !.col_ids_set = (ColIds(gb.hash) # <<>>),
                           !.col_ids_hash = gb.hash]
            ELSE h
  IN IF h0.col_ids_hash # gb.hash
     THEN {[h |-> h0, ok |-> FALSE]}
     ELSE IF h0.available_positions # <<>>
          THEN {PushFree(h0, gb)}
          ELSE {[h |-> x, ok |-> TRUE] : x \in PopUntilFree(h0, gb)}

\* WindowHeap::get_out_gridbuffer: Vec::pop takes the last element.
GetOutGridbuffer(h) ==
  LET n == Len(h.out_gridbuffers)
  IN IF n = 0
     THEN [h |-> h, gb |-> EmptyGridBuffer, some |-> FALSE]
     ELSE [h    |-> [h EXCEPT !.out_gridbuffers = SubSeq(@, 1, n - 1)],
           gb   |-> h.out_gridbuffers[n],
           some |-> TRUE]

\* WindowHeap::len.
HeapLen(h) == Cardinality(h.heap)

\* WindowHeap::is_full.
IsFull(h) == HeapLen(h) = h.window_size

\* WindowHeap::process_remain_data (the drain): pop every remaining row into
\* the stage, flush at batch_size, and flush the last partial batch.
RECURSIVE ProcessRemainData(_)
ProcessRemainData(h) ==
  IF h.heap = {}
  THEN IF h.gridrows = <<>>
       THEN {h}
       ELSE { [h EXCEPT !.out_gridbuffers = Append(@, gb), !.gridrows = <<>>] :
                gb \in ToGridbuffer(h) }
  ELSE UNION { UNION {
         ProcessRemainData(
           [h2 EXCEPT !.num_rows_left[e[1]] = IF @ > 0 THEN @ - 1 ELSE 0])
         : h2 \in StageRow(h, e) } : e \in MinEntries(h) }

(***************************************************************************)
(* Helpers on sequences of rows.                                           *)
(***************************************************************************)
RECURSIVE Flatten(_)
Flatten(bufs) ==
  IF bufs = <<>> THEN <<>> ELSE Head(bufs).rows \o Flatten(Tail(bufs))

SortedKeys(s) == \A i \in 1..(Len(s) - 1) : KeyLeq(s[i], s[i + 1])

CountKey(s, k) == Cardinality({i \in 1..Len(s) : s[i] = k})

\* The bag of the rows of s, and a bag with the rows of s added.
BagOfRows(s) == [k \in AllKeys |-> CountKey(s, k)]

AddRows(bag, s) == [k \in AllKeys |-> bag[k] + CountKey(s, k)]

(***************************************************************************)
(* SampleSaver, its workers, and the handlers of DropletServerImpl.        *)
(*                                                                         *)
(* The model follows one SampleSaver from its construction by the first    *)
(* start_sink_partition to its removal from sample_savers.  worker_num (8  *)
(* in the code), the window of the workers and of the merge (256), their   *)
(* batch size (4) and the channel capacity (256) are scaled down to the    *)
(* bounds below.  Handlers and workers are tasks of a multi-threaded       *)
(* runtime: a step of the model is the code between two points where       *)
(* another task can run and observe shared state.                          *)
(***************************************************************************)
NumWorkers == 2
SaverWindow == 2
SaverBatch == 2
ChannelCap == 1
NumSinkers == 2
NumSinkBuffers == 2
MaxCalls == 5

Workers == 0..(NumWorkers - 1)

SinkerIds == 1..NumSinkers

\* The buffers the sink_grid_sample requests carry.
SinkBufferSeq == << BufferSeq[4], BufferSeq[3], BufferSeq[1], BufferSeq[8] >>

SinkBuffers ==
  {SinkBufferSeq[i] : i \in 1..Min2(NumSinkBuffers, Len(SinkBufferSeq))}

\* WorkerInfo::default().
WorkerInfoDefault == [worker_state |-> "Running", total |-> 0]

\* worker_infos[i]: vec![Arc::new(..); worker_num] clones one Arc, so every
\* entry of the Vec is the same cell.
WorkerInfoCell(i) == 0

\* SampleSaver::is_workers_done.
IsWorkersDone(infos) ==
  \A i \in Workers : infos[WorkerInfoCell(i)].worker_state = "Success"

\* SampleSaver::get_total_lines.
RECURSIVE SumTotal(_, _)
SumTotal(infos, i) ==
  IF i >= NumWorkers THEN 0
  ELSE infos[WorkerInfoCell(i)].total + SumTotal(infos, i + 1)

GetTotalLines(infos) == SumTotal(infos, 0)

\* merge_sort: lines_per_file = total_lines / worker_num.
LinesPerFile(infos) == GetTotalLines(infos) \div NumWorkers

\* The lines of all worker files.
RECURSIVE AllLines(_, _)
AllLines(fs, j) ==
  IF j >= NumWorkers THEN <<>> ELSE fs[j].lines \o AllLines(fs, j + 1)

\* while let Some(gridbuffer) = window_heap.get_out_gridbuffer(): write a line.
\* Returns the heap, the lines of the file and the number of lines written.
RECURSIVE WriteOuts(_, _, _)
WriteOuts(h, lines, n) ==
  LET o == GetOutGridbuffer(h)
  IN IF ~o.some
     THEN [h |-> h, lines |-> lines, n |-> n]
     ELSE WriteOuts(o.h, Append(lines, o.gb), n + 1)

\* file.write_all(..)?: of the n lines a worker has to write, all n are
\* written, or a write fails after j < n lines and the worker stops.
WritesDone(n) == 0..n

\* The file after j of the new lines have been written.
LinesWritten(old, new, j) == SubSeq(new, 1, Len(old) + j)

\* worker_info.total += 1 is a load and a store of a cell that all workers
\* write without synchronization.  Of the j increments of one step of a
\* worker the first j - 1 are taken as one, and the last one is split: the
\* value loaded here, and the store of WorkerStore.
TotalLoaded(total, j) == total + (j - 1)

(***************************************************************************)
(* merge_sort.                                                             *)
(***************************************************************************)
MergeNew(lpf) ==
  [ heap       |-> WindowHeapNew(SaverWindow, SaverBatch),
    pos        |-> [j \in Workers |-> 0],
    count_done |-> 0,
    last       |-> 0,
    is_full    |-> FALSE,
    out        |-> <<>>,
    cur        |-> 0,
    cnt        |-> 0,
    lpf        |-> lpf,
    ok         |-> TRUE ]

\* readers[j].read_line returns Ok(0).
AtEof(fs, m, j) == m.pos[j] >= Len(fs[j].lines)

NextLine(fs, m, j) == fs[j].lines[m.pos[j] + 1]

\* A line whose bytes are not valid UTF-8: read_line consumes the bytes of
\* the line and returns Err.
UnreadableLine == GridBuffer(<<>>, 0 - 1)

\* readers[j].read_line returns Err.
ReadFails(fs, m, j) ==
  ~AtEof(fs, m, j) /\ NextLine(fs, m, j) = UnreadableLine

\* WindowHeap::push_with_reader_index: push, and the heap notes the reader.
PushWithReaderIndex(h, gb, j) == Push(h, gb)

\* WindowHeap::get_out_reader_index: the reader the heap names, if any.
GetOutReaderIndex(h) ==
  {[some |-> FALSE, idx |-> 0]} \cup {[some |-> TRUE, idx |-> j] : j \in Workers}

\* The inner loop of the priming phase: for j in 0..readers.len().
RECURSIVE PrimeInner(_, _, _)
PrimeInner(fs, m, j) ==
  IF j >= NumWorkers
  THEN {m}
  ELSE IF AtEof(fs, m, j)
       THEN LET m1 == [m EXCEPT !.count_done = @ + 1]
            IN IF m1.count_done = NumWorkers
               THEN {m1}
               ELSE PrimeInner(fs, m1, j + 1)
       ELSE IF ReadFails(fs, m, j)
       THEN LET m1 == [m EXCEPT !.pos[j] = @ + 1, !.count_done = @ + 1]
            IN IF m1.count_done = NumWorkers
               THEN {m1}
               ELSE PrimeInner(fs, m1, j + 1)
       ELSE LET m1 == [m EXCEPT !.pos[j] = @ + 1, !.last = j]
            IN UNION {
                 IF r.ok /\ IsFull(r.h)
                 THEN {[m1 EXCEPT !.heap = r.h, !.is_full = TRUE]}
                 ELSE PrimeInner(fs, [m1 EXCEPT !.heap = r.h], j + 1)
                 : r \in PushWithReaderIndex(m1.heap, NextLine(fs, m, j), j) }

\* The priming phase: for _i in 0..window_size.
RECURSIVE PrimeOuter(_, _, _)
PrimeOuter(fs, m, i) ==
  IF i >= SaverWindow \/ m.is_full
  THEN {m}
  ELSE UNION {PrimeOuter(fs, m2, i + 1) : m2 \in PrimeInner(fs, m, 0)}

\* The while-let of process_out_gridbuffers: write every ready buffer as a
\* line of the current output file; open the next file at lines_per_file.
RECURSIVE WriteSorted(_)
WriteSorted(m) ==
  LET o == GetOutGridbuffer(m.heap)
  IN IF ~o.some
     THEN m
     ELSE LET m1 == [m EXCEPT !.heap = o.h,
                              !.out[m.cur + 1] = Append(@, o.gb),
                              !.cnt = @ + 1]
          IN IF m1.cnt >= m1.lpf
             THEN WriteSorted([m1 EXCEPT !.cur = @ + 1,
                                         !.out = Append(@, <<>>),
                                         !.cnt = 0])
             ELSE WriteSorted(m1)

\* SampleSaver::process_out_gridbuffers.
ProcessOutGridbuffers(m) ==
  IF Len(m.heap.out_gridbuffers) > 0
  THEN LET m1 == WriteSorted(m)
       IN { IF r.some THEN [m1 EXCEPT !.last = r.idx] ELSE m1 :
              r \in GetOutReaderIndex(m1.heap) }
  ELSE {m}

\* The main loop: while count_done < readers.len().
RECURSIVE MergeLoop(_, _)
MergeLoop(fs, m) ==
  IF m.count_done >= NumWorkers
  THEN {m}
  ELSE IF AtEof(fs, m, m.last)
       THEN MergeLoop(fs, [m EXCEPT !.count_done = @ + 1,
                                    !.last = (@ + 1) % NumWorkers])
       ELSE IF ReadFails(fs, m, m.last)
       THEN MergeLoop(fs, [m EXCEPT !.pos[m.last] = @ + 1,
                                    !.count_done = @ + 1])
       ELSE LET m1 == [m EXCEPT !.pos[m.last] = @ + 1]
            IN UNION {
                 IF ~r.ok
                 THEN {[m1 EXCEPT !.heap = r.h, !.ok = FALSE]}
                 ELSE UNION { MergeLoop(fs, m2) :
                                m2 \in ProcessOutGridbuffers(
                                         [m1 EXCEPT !.heap = r.h]) }
                 : r \in Push(m1.heap, NextLine(fs, m, m.last)) }

\* After the loop: process_remain_data and the last process_out_gridbuffers.
MergeRemain(m) ==
  IF ~m.ok
  THEN {m}
  ELSE UNION { ProcessOutGridbuffers([m EXCEPT !.heap = h]) :
                 h \in ProcessRemainData(m.heap) }

\* SampleSaver::merge_sort on the worker files fs: the set of results
\* [ok, out, pos, count_done], out being the files 0.grid, 1.grid, ... it
\* wrote, pos the number of lines it read from each worker file and
\* count_done the value of its counter when it stopped reading.
MergeSort(fs, infos) ==
  IF ~IsWorkersDone(infos) \/ \E j \in Workers : ~fs[j].exists
  THEN {[ok |-> FALSE, out |-> <<>>, pos |-> [j \in Workers |-> 0],
         count_done |-> 0]}
  ELSE LET lpf == LinesPerFile(infos)
       IN UNION { UNION { { [ok |-> m3.ok, out |-> m3.out, pos |-> m3.pos,
                             count_done |-> m3.count_done] :
                              m3 \in MergeRemain(m2) }
                          : m2 \in MergeLoop(fs, [m1 EXCEPT !.out = << <<>> >>]) }
                  : m1 \in PrimeOuter(fs, MergeNew(lpf), 0) }

\* File::create truncates the files a merge writes; files of an earlier
\* merge with a higher index stay.
Overlay(old, new) ==
  [i \in 1..(IF Len(old) > Len(new) THEN Len(old) ELSE Len(new)) |->
     IF i <= Len(new) THEN new[i] ELSE old[i]]

(***************************************************************************)
(* The files of path_sorted in lexicographic file-name order.              *)
(***************************************************************************)
RECURSIVE Digits(_)
Digits(n) == IF n < 10 THEN <<n>> ELSE Digits(n \div 10) \o <<n % 10>>

\* "<a>.grid" < "<b>.grid" as strings: '.' sorts before every digit.
NameLess(a, b) ==
  LET x == Digits(a)
      y == Digits(b)
  IN \/ \E i \in 1..Min2(Len(x), Len(y)) :
          /\ x[i] < y[i]
          /\ \A j \in 1..(i - 1) : x[j] = y[j]
     \/ /\ Len(x) < Len(y)
        /\ \A j \in 1..Len(x) : x[j] = y[j]

FilesByName(fileseq) ==
  LET n == Len(fileseq)
  IN [r \in 1..n |->
        fileseq[(CHOOSE i \in 0..(n - 1) :
                   Cardinality({j \in 0..(n - 1) : NameLess(j, i)}) = r - 1) + 1]]

RECURSIVE ConcatFiles(_)
ConcatFiles(fileseq) ==
  IF fileseq = <<>> THEN <<>>
  ELSE Head(fileseq) \o ConcatFiles(Tail(fileseq))

\* The rows of path_sorted/*.grid, files taken in file-name order.
SortedRows(fileseq) == Flatten(ConcatFiles(FilesByName(fileseq)))

(***************************************************************************)
(* State.                                                                  *)
(***************************************************************************)
VARIABLES
  wh,          \* the WindowHeap under test
  pushed,      \* how often each key was in a buffer push accepted
  npush,       \* the number of push calls made
  delivered,   \* the output buffers in the order the caller obtained them
  drained,     \* process_remain_data has been called
  sortedIn,    \* every accepted buffer was sorted and not below its predecessors
  lastIn,      \* the last row push accepted
  accHashes,   \* the column-id hashes of the buffers push accepted
  rejectDirty, \* a push that returned an error changed the heap
  \* GridSinker::run
  sk_pc,       \* where the run is
  sk_P,        \* partition_count_per_day
  sk_heap,     \* window_heap
  sk_part,     \* partition_index, the open partition
  sk_cur,      \* the output buffer being routed, with its partition index
  sk_rpc,      \* the requests sent, in order
  sk_in,       \* the parsed input buffers read so far
  \* DropletServerImpl, one SampleSaver and its workers
  sv_made,          \* SampleSaver::new has run
  sv_in_map,        \* sample_savers holds the saver under its path_id
  sv_sinker_ids,    \* SampleSaver.sinker_ids
  sv_chan,          \* the requests in the ingress channel
  sv_closed,        \* the ingress channel is closed
  sv_info,          \* the WorkerInfo cells
  sv_wpc,           \* where each worker is
  sv_wheap,         \* the WindowHeap of each worker
  sv_file,          \* path/<i>.grid of each worker
  sv_sorted,        \* path_sorted/0.grid, 1.grid, ...
  sv_fin,           \* the finish_sink_partition handlers past close_sender
  sv_blocked,       \* the sink_grid_sample handlers waiting in send
  sv_shutdown,      \* shutdown has been requested
  sv_ncalls,        \* the number of requests handled or in handling
  sv_accepted,      \* the rows of the requests answered with success
  sv_active,        \* the sinkers that called start and not yet finish
  sv_finished,      \* the sinkers that called finish
  sv_open_at_close, \* the sinkers active at a close_sender
  sv_open_at_merge, \* the sinkers active at a start of merge_sort
  sv_repeat_did,    \* what repeated finish calls did
  sv_nmerge,        \* the number of merge_sort runs
  sv_returned,      \* a finish that ran the merge has returned success
  sv_success,       \* the file path/SUCCESS exists
  sv_last_in,       \* the last row of the requests answered with success
  sv_facts,         \* what has happened in the run so far
  sv_loaded,        \* the value of total each worker has loaded
  \* a function of the program applied to one input
  fx_pc,            \* "input" before the call, "done" after it
  fx_arg,           \* the arguments
  fx_res,           \* the result
  \* sample_savers and the GridSinker threads of one table
  rg_host,          \* the host each GridSinker thread runs on
  rg_map,           \* sample_savers[path_id]: a saver, or 0
  rg_savers,        \* the SampleSavers made so far
  rg_th,            \* each thread: where its run and its request are
  rg_inter,         \* the saver whose workers last created path/<i>.grid
  rg_sorted,        \* the saver whose merge last wrote path_sorted
  rg_completed,     \* the savers whose closing finish returned success
  rg_facts          \* what has happened in the run so far

heapVars == <<wh, pushed, npush, delivered, drained, sortedIn, lastIn,
             accHashes, rejectDirty>>

sinkerVars == <<sk_pc, sk_P, sk_heap, sk_part, sk_cur, sk_rpc, sk_in>>

serverVars == <<sv_made, sv_in_map, sv_sinker_ids, sv_chan, sv_closed,
                sv_info, sv_wpc, sv_wheap, sv_file, sv_sorted, sv_fin,
                sv_blocked, sv_shutdown, sv_ncalls, sv_accepted, sv_active,
                sv_finished, sv_open_at_close, sv_open_at_merge,
                sv_repeat_did, sv_nmerge, sv_returned, sv_success,
                sv_last_in, sv_facts, sv_loaded>>

fxVars == <<fx_pc, fx_arg, fx_res>>

registryVars == <<rg_host, rg_map, rg_savers, rg_th, rg_inter, rg_sorted,
                  rg_completed, rg_facts>>

vars == <<wh, pushed, npush, delivered, drained, sortedIn, lastIn,
          accHashes, rejectDirty,
          sk_pc, sk_P, sk_heap, sk_part, sk_cur, sk_rpc, sk_in,
          sv_made, sv_in_map, sv_sinker_ids, sv_chan, sv_closed,
          sv_info, sv_wpc, sv_wheap, sv_file, sv_sorted, sv_fin,
          sv_blocked, sv_shutdown, sv_ncalls, sv_accepted, sv_active,
          sv_finished, sv_open_at_close, sv_open_at_merge,
          sv_repeat_did, sv_nmerge, sv_returned, sv_success,
          sv_last_in, sv_facts, sv_loaded,
          fx_pc, fx_arg, fx_res,
          rg_host, rg_map, rg_savers, rg_th, rg_inter, rg_sorted,
          rg_completed, rg_facts>>

(***************************************************************************)
(* The map sample_savers of DropletServerImpl under the handlers of the    *)
(* GridSinker instances of one table.                                      *)
(*                                                                         *)
(* Every GridSinker talks to the default endpoint, and the path and the    *)
(* path_id of its requests are those of the table: there is one key in     *)
(* sample_savers.  The workers and the merge of a saver are reduced to the *)
(* files they create.  A step is the code between two operations on the    *)
(* DashMaps; handlers of different requests run on different threads of    *)
(* the runtime.                                                            *)
(***************************************************************************)
NumThreads == 2
NumHosts == 2
NumParts == 2
MaxSinks == 1
MaxCross == 1

Threads == 1..NumThreads

Hosts == 1..NumHosts

Parts == 0..(NumParts - 1)

\* GridSinker::new: sinker_id is the key id of the hostname of the client;
\* the handlers take it from the request.
SinkerIdOf(t) == rg_host[t]

\* SampleSaver::new(path, path_id, partition_index) followed by
\* start_partition(sinker_id).
SampleSaverNew(p, sid) ==
  [ partition_index |-> p,
    sinker_ids      |-> {sid},
    closed          |-> FALSE,
    workers         |-> "spawned",
    parts           |-> {p},
    nmerge          |-> 0 ]

ThreadNew ==
  [pc |-> "idle", part |-> 0, reg |-> 0, ref |-> 0, nsink |-> 0,
   ncross |-> 0, cross |-> FALSE]

RegistryIdle ==
  /\ rg_host = [t \in Threads |-> 1]
  /\ rg_map = 0
  /\ rg_savers = <<>>
  /\ rg_th = [t \in Threads |-> ThreadNew]
  /\ rg_inter = 0
  /\ rg_sorted = 0
  /\ rg_completed = {}
  /\ rg_facts = {}

(***************************************************************************)
(* The WindowHeap driven by a caller that empties the output queue after   *)
(* every push and after the drain.                                         *)
(***************************************************************************)
FxIdle ==
  /\ fx_pc = "idle"
  /\ fx_arg = <<>>
  /\ fx_res = <<>>

HeapIdle ==
  /\ wh = WindowHeapNew(1, 1)
  /\ pushed = [k \in AllKeys |-> 0]
  /\ npush = 0
  /\ delivered = <<>>
  /\ drained = FALSE
  /\ sortedIn = TRUE
  /\ lastIn = ZeroKey
  /\ accHashes = {}
  /\ rejectDirty = FALSE

SinkerIdle ==
  /\ sk_pc = "idle"
  /\ sk_P = 1
  /\ sk_heap = WindowHeapNew(1, 1)
  /\ sk_part = 0
  /\ sk_cur = [gb |-> EmptyGridBuffer, idx |-> 0]
  /\ sk_rpc = <<>>
  /\ sk_in = <<>>

ServerIdle ==
  /\ sv_made = FALSE
  /\ sv_in_map = FALSE
  /\ sv_sinker_ids = {}
  /\ sv_chan = <<>>
  /\ sv_closed = FALSE
  /\ sv_info = [c \in Workers |-> WorkerInfoDefault]
  /\ sv_wpc = [w \in Workers |-> "unborn"]
  /\ sv_wheap = [w \in Workers |-> WindowHeapNew(SaverWindow, SaverBatch)]
  /\ sv_file = [w \in Workers |-> [exists |-> FALSE, lines |-> <<>>]]
  /\ sv_sorted = <<>>
  /\ sv_fin = <<>>
  /\ sv_blocked = <<>>
  /\ sv_shutdown = FALSE
  /\ sv_ncalls = 0
  /\ sv_accepted = [k \in AllKeys |-> 0]
  /\ sv_active = {}
  /\ sv_finished = {}
  /\ sv_open_at_close = {}
  /\ sv_open_at_merge = {}
  /\ sv_repeat_did = {}
  /\ sv_nmerge = 0
  /\ sv_returned = FALSE
  /\ sv_success = FALSE
  /\ sv_last_in = ZeroKey
  /\ sv_facts = {}
  /\ sv_loaded = [w \in Workers |-> 0]

HeapInit ==
  /\ SinkerIdle
  /\ ServerIdle
  /\ RegistryIdle
  /\ FxIdle
  /\ wh \in {WindowHeapNew(W, B) : W \in 1..MaxWindow, B \in 1..MaxBatch}
  /\ pushed = [k \in AllKeys |-> 0]
  /\ npush = 0
  /\ delivered = <<>>
  /\ drained = FALSE
  /\ sortedIn = TRUE
  /\ lastIn = ZeroKey
  /\ accHashes = {}
  /\ rejectDirty = FALSE

HeapPush(gb) ==
  /\ ~drained
  /\ wh.out_gridbuffers = <<>>
  /\ npush < MaxPush
  /\ npush' = npush + 1
  /\ \E r \in Push(wh, gb) :
       /\ wh' = r.h
       /\ pushed' = IF r.ok THEN AddRows(pushed, gb.rows) ELSE pushed
       /\ sortedIn' = IF r.ok
                      THEN sortedIn /\ SortedKeys(<<lastIn>> \o gb.rows)
                      ELSE sortedIn
       /\ lastIn' = IF r.ok /\ gb.rows # <<>>
                    THEN gb.rows[Len(gb.rows)]
                    ELSE lastIn
       /\ accHashes' = IF r.ok THEN accHashes \cup {gb.hash} ELSE accHashes
       /\ rejectDirty' = (rejectDirty \/ (~r.ok /\ r.h # wh))
  /\ UNCHANGED <<delivered, drained>>
  /\ UNCHANGED <<sinkerVars, serverVars, fxVars, registryVars>>

HeapGetOut ==
  /\ wh.out_gridbuffers # <<>>
  /\ LET r == GetOutGridbuffer(wh)
     IN /\ wh' = r.h
        /\ delivered' = Append(delivered, r.gb)
  /\ UNCHANGED <<pushed, npush, drained, sortedIn, lastIn, accHashes,
                 rejectDirty>>
  /\ UNCHANGED <<sinkerVars, serverVars, fxVars, registryVars>>

HeapDrain ==
  /\ ~drained
  /\ wh.out_gridbuffers = <<>>
  /\ \E h \in ProcessRemainData(wh) : wh' = h
  /\ drained' = TRUE
  /\ UNCHANGED <<pushed, npush, delivered, sortedIn, lastIn, accHashes,
                 rejectDirty>>
  /\ UNCHANGED <<sinkerVars, serverVars, fxVars, registryVars>>

HeapNext ==
  \/ \E gb \in GridBuffers : HeapPush(gb)
  \/ HeapGetOut
  \/ HeapDrain

Spec == HeapInit /\ [][HeapNext]_vars

(***************************************************************************)
(* Claims about the WindowHeap.                                            *)
(***************************************************************************)

\* C1: row conservation.  After any sequence of accepted pushes followed by
\* the drain, once the caller has taken every output buffer, the rows of the
\* output buffers are exactly the rows of the pushed buffers (same multiset).
C1_RowConservation ==
  (drained /\ wh.out_gridbuffers = <<>>)
     => BagOfRows(Flatten(delivered)) = pushed

\* C2: sorted output as the caller sees it.  When the input stream is sorted
\* (no skew at all), the rows of the output buffers, in the order the caller
\* obtains the buffers, are non-decreasing by SampleKey.
C2_SortedOutput ==
  sortedIn => SortedKeys(Flatten(delivered))

\* C12: column-hash drift is rejected without side effect.  All buffers a
\* WindowHeap accepts have the column-id hash of the first accepted buffer,
\* and a push that returns an error leaves the heap as it was.
C12_HashDrift ==
  /\ Cardinality(accHashes) <= 1
  /\ ~rejectDirty

\* The number of rows the accepted pushes brought.
RECURSIVE SumBag(_, _)
SumBag(bag, ks) ==
  IF ks = {} THEN 0
  ELSE LET k == CHOOSE x \in ks : TRUE
       IN bag[k] + SumBag(bag, ks \ {k})

\* C13: fixed output batch size.  Every output buffer produced by push has
\* exactly batch_size rows, only the last buffer the drain produces may have
\* fewer, and none is empty; while at most window_size buffers have been
\* pushed, there is no output and len() is the number of rows pushed.
C13_BatchSize ==
  /\ \A i \in 1..Len(delivered) :
        /\ NumRows(delivered[i]) >= 1
        /\ NumRows(delivered[i]) <= wh.batch_size
  /\ \A i \in 1..Len(wh.out_gridbuffers) :
        /\ NumRows(wh.out_gridbuffers[i]) >= 1
        /\ NumRows(wh.out_gridbuffers[i]) <= wh.batch_size
        /\ (~drained \/ i < Len(wh.out_gridbuffers))
             => NumRows(wh.out_gridbuffers[i]) = wh.batch_size
  /\ ~drained => \A i \in 1..Len(delivered) :
                    NumRows(delivered[i]) = wh.batch_size
  /\ Cardinality({i \in 1..Len(delivered) :
                     NumRows(delivered[i]) < wh.batch_size})
       + Cardinality({i \in 1..Len(wh.out_gridbuffers) :
                        NumRows(wh.out_gridbuffers[i]) < wh.batch_size}) <= 1
  /\ (npush <= wh.window_size /\ ~drained) =>
        /\ delivered = <<>>
        /\ wh.out_gridbuffers = <<>>
        /\ HeapLen(wh) = SumBag(pushed, AllKeys)

\* Pushes beyond the window have produced full buffers, and the drain has
\* produced a full buffer and a last, shorter one.
C13_Witness ==
  /\ drained
  /\ npush > wh.window_size
  /\ wh.batch_size > 1
  /\ \E i \in 1..Len(delivered) : NumRows(delivered[i]) = wh.batch_size
  /\ \E i \in 1..Len(delivered) : NumRows(delivered[i]) < wh.batch_size

\* C19: sample-key columns are checked at ingress.  No row of a buffer whose
\* first four column ids are not the sample-key ids reaches an output
\* buffer: every output buffer has the sample-key columns.
C19_SampleKeyColumns ==
  /\ \A h \in accHashes : IsValidSample(GridBuffer(<<>>, h))
  /\ \A i \in 1..Len(delivered) : IsValidSample(delivered[i])

\* C24: row references stay live.  Every heap entry refers to a row of the
\* buffer its slot holds, a slot holds no more heap entries than rows left,
\* and every row in the output stage that is not yet materialized still finds
\* in its slot the buffer it was taken from: the slot has not been given to
\* a newly pushed buffer meanwhile.
C24_LiveReferences ==
  /\ \A e \in wh.heap : e[2] < NumRows(wh.elements[e[1] + 1])
  /\ \A s \in 0..(wh.window_size - 1) :
       Cardinality({e \in wh.heap : e[1] = s}) <= wh.num_rows_left[s]
  /\ \A i \in 1..Len(wh.gridrows) :
       GetSampleKey(wh.elements[wh.gridrows[i].slot + 1], wh.gridrows[i].row)
         = wh.gridrows[i].val

\* The number of rows of the buffers resident in the slots.
RECURSIVE ResidentRows(_)
ResidentRows(elems) ==
  IF elems = <<>> THEN 0 ELSE NumRows(Head(elems)) + ResidentRows(Tail(elems))

\* C36: bounded residency.  At every moment a WindowHeap(W, B) holds at most
\* W input buffers, its heap has at most as many entries as the resident
\* buffers have rows, and its output stage holds fewer than B rows,
\* however many buffers have been pushed.
C36_BoundedResidency ==
  /\ Len(wh.elements) <= wh.window_size
  /\ HeapLen(wh) <= ResidentRows(wh.elements)
  /\ Len(wh.gridrows) < wh.batch_size

\* More buffers than the window have been pushed, every slot is taken, and
\* rows are in the heap and in the stage.
C36_Witness ==
  /\ npush > wh.window_size
  /\ Len(wh.elements) = wh.window_size
  /\ wh.heap # {}
  /\ wh.gridrows # <<>>

\* C37: rows_left matches the heap.  Between operations num_rows_left[slot]
\* is, for every slot, the number of heap entries that refer to the slot:
\* a push that stores a buffer in a slot, taken from the free stack or
\* reused, leaves one heap entry for each row counted.
C37_RowsLeftMatchesHeap ==
  \A s \in 0..(wh.window_size - 1) :
     wh.num_rows_left[s] = Cardinality({e \in wh.heap : e[1] = s})

(***************************************************************************)
(* The WindowHeap on buffers whose rows have equal SampleKeys.             *)
(***************************************************************************)
NumTieBuffers == 3

TieBufferSeq ==
  << GridBuffer(<<K1, K1>>, 1),
     GridBuffer(<<K1>>, 1),
     GridBuffer(<<K1, K2, K2>>, 1),
     GridBuffer(<<K2, K2>>, 1) >>

TieBuffers ==
  {TieBufferSeq[i] : i \in 1..Min2(NumTieBuffers, Len(TieBufferSeq))}

TieNext ==
  \/ \E gb \in TieBuffers : HeapPush(gb)
  \/ HeapGetOut
  \/ HeapDrain

SpecTie == HeapInit /\ [][TieNext]_vars

\* The heap entries whose row has the least SampleKey.
MinKeyEntries(h) ==
  {e \in h.heap : \A f \in h.heap : KeyLeq(EntryKey(h, e), EntryKey(h, f))}

\* C31: deterministic tie-break.  Rows with equal SampleKey leave the heap
\* in increasing (slot_index, row_index) order: the entry heap.pop() returns
\* next is, of the entries with the least key, the one with the least
\* (slot_index, row_index).
C31_TieBreak ==
  \A e \in MinEntries(wh) : \A f \in MinKeyEntries(wh) :
     e[1] < f[1] \/ (e[1] = f[1] /\ e[2] <= f[2])

(***************************************************************************)
(* GridSinker.                                                             *)
(***************************************************************************)
MaxInput == 4

SecondsPerDay == 86400

SinkerWindow == 2

PartitionCounts == {7, 24}

\* The partition index taken from the last row instead of row 0.
PartitionIndexByLastRow(gb, P) ==
  IF NumRows(gb) = 0
  THEN [ok |-> FALSE, idx |-> 0]
  ELSE LET timestamp            == GetSampleKey(gb, NumRows(gb) - 1)[1]
           seconds_in_day       == timestamp % SecondsPerDay
           time_span_in_seconds == SecondsPerDay \div P
       IN [ok |-> TRUE, idx |-> seconds_in_day \div time_span_in_seconds]

\* GridSinker::get_partition_index_by_timestamp.
PartitionIndexByTimestamp(gb, P) ==
  IF NumRows(gb) = 0
  THEN [ok |-> FALSE, idx |-> 0]
  ELSE LET timestamp            == GetSampleKey(gb, 0)[1]
           seconds_in_day       == timestamp % SecondsPerDay
           time_span_in_seconds == SecondsPerDay \div P
       IN [ok |-> TRUE, idx |-> seconds_in_day \div time_span_in_seconds]

\* A line of the reader: a GridBuffer, or text from_base64 rejects.
BadLine == [ok |-> FALSE, gb |-> EmptyGridBuffer]

GoodLine(gb) == [ok |-> TRUE, gb |-> gb]

\* The buffers filter_map lets through.
RECURSIVE Parsed(_)
Parsed(lines) ==
  IF lines = <<>> THEN <<>>
  ELSE IF Head(lines).ok
       THEN <<Head(lines).gb>> \o Parsed(Tail(lines))
       ELSE Parsed(Tail(lines))

Rpc(op, p, gb) == [op |-> op, p |-> p, gb |-> gb]

SinkerInit ==
  /\ HeapIdle
  /\ ServerIdle
  /\ RegistryIdle
  /\ FxIdle
  /\ sk_pc = "first"
  /\ sk_P \in PartitionCounts
  /\ sk_heap \in {WindowHeapNew(SinkerWindow, B) : B \in 1..MaxBatch}
  /\ sk_part = 0
  /\ sk_cur = [gb |-> EmptyGridBuffer, idx |-> 0]
  /\ sk_rpc = <<>>
  /\ sk_in = <<>>

\* gridbuffers.next() for the first buffer, and its partition index.
SinkerReadFirst ==
  /\ sk_pc = "first"
  /\ \/ /\ sk_pc' = "err"
        /\ UNCHANGED <<sk_in, sk_part, sk_cur>>
     \/ /\ Len(sk_in) < MaxInput
        /\ sk_in' = Append(sk_in, BadLine)
        /\ UNCHANGED <<sk_pc, sk_part, sk_cur>>
     \/ /\ Len(sk_in) < MaxInput
        /\ \E gb \in GridBuffers :
             LET r == PartitionIndexByTimestamp(gb, sk_P)
             IN /\ sk_in' = Append(sk_in, GoodLine(gb))
                /\ sk_pc' = IF r.ok THEN "heartbeat" ELSE "err"
                /\ sk_part' = IF r.ok THEN r.idx ELSE sk_part
                /\ sk_cur' = [gb |-> gb, idx |-> r.idx]
  /\ UNCHANGED <<sk_P, sk_heap, sk_rpc>>
  /\ UNCHANGED <<heapVars, serverVars, fxVars, registryVars>>

\* One request and its answer: the request is sent, and the call returns Ok
\* (the run goes on at `next`) or Err (the run returns the error).
SinkerCall(req, next) ==
  /\ sk_rpc' = Append(sk_rpc, req)
  /\ \/ sk_pc' = next
     \/ sk_pc' = "err"

\* The run goes on to start_sink_partition without a heartbeat.
SinkerNoHeartbeat ==
  /\ sk_pc = "heartbeat"
  /\ sk_pc' = "start"
  /\ UNCHANGED <<sk_P, sk_heap, sk_part, sk_cur, sk_in, sk_rpc>>
  /\ UNCHANGED <<heapVars, serverVars, fxVars, registryVars>>

\* client.heartbeat(sinker_id).
SinkerHeartbeat ==
  /\ sk_pc = "heartbeat"
  /\ SinkerCall(Rpc("heartbeat", 0, EmptyGridBuffer), "start")
  /\ UNCHANGED <<sk_P, sk_heap, sk_part, sk_cur, sk_in>>
  /\ UNCHANGED <<heapVars, serverVars, fxVars, registryVars>>

\* client.start_sink_partition for the partition of the first buffer.
SinkerStartFirst ==
  /\ sk_pc = "start"
  /\ SinkerCall(Rpc("start", sk_part, EmptyGridBuffer), "sink_first")
  /\ UNCHANGED <<sk_P, sk_heap, sk_part, sk_cur, sk_in>>
  /\ UNCHANGED <<heapVars, serverVars, fxVars, registryVars>>

\* client.sink_grid_sample(first_gridbuffer): the first buffer is sent as read.
SinkerSinkFirst ==
  /\ sk_pc = "sink_first"
  /\ SinkerCall(Rpc("sink", sk_part, sk_cur.gb), "loop")
  /\ UNCHANGED <<sk_P, sk_heap, sk_part, sk_cur, sk_in>>
  /\ UNCHANGED <<heapVars, serverVars, fxVars, registryVars>>

\* for gridbuffer in gridbuffers: window_heap.push(gridbuffer)?
SinkerPush ==
  /\ sk_pc = "loop"
  /\ \/ /\ sk_pc' = "final"
        /\ UNCHANGED <<sk_in, sk_heap>>
     \/ /\ Len(sk_in) < MaxInput
        /\ sk_in' = Append(sk_in, BadLine)
        /\ UNCHANGED <<sk_pc, sk_heap>>
     \/ /\ Len(sk_in) < MaxInput
        /\ \E gb \in GridBuffers : \E r \in Push(sk_heap, gb) :
             /\ sk_in' = Append(sk_in, GoodLine(gb))
             /\ sk_heap' = r.h
             /\ sk_pc' = IF ~r.ok THEN "err"
                         ELSE IF Len(r.h.out_gridbuffers) > 0 THEN "out"
                         ELSE "loop"
  /\ UNCHANGED <<sk_P, sk_part, sk_cur, sk_rpc>>
  /\ UNCHANGED <<heapVars, serverVars, fxVars, registryVars>>

\* while let Some(gridbuffer) = window_heap.get_out_gridbuffer()
SinkerGetOut ==
  /\ sk_pc = "out"
  /\ LET o == GetOutGridbuffer(sk_heap)
         r == PartitionIndexByTimestamp(o.gb, sk_P)
     IN /\ sk_heap' = o.h
        /\ IF ~o.some
           THEN /\ sk_pc' = "loop"
                /\ UNCHANGED <<sk_cur, sk_part>>
           ELSE IF NumRows(o.gb) = 0
           THEN UNCHANGED <<sk_pc, sk_cur, sk_part>>
           ELSE /\ sk_cur' = [gb |-> o.gb, idx |-> r.idx]
                /\ sk_pc' = IF ~r.ok THEN "err"
                            ELSE IF r.idx # sk_part THEN "finish_old"
                            ELSE "sink"
                /\ sk_part' = IF r.ok /\ r.idx = sk_part THEN r.idx ELSE sk_part
  /\ UNCHANGED <<sk_P, sk_rpc, sk_in>>
  /\ UNCHANGED <<heapVars, serverVars, fxVars, registryVars>>

\* The partition changed: client.finish_sink_partition(old partition).
SinkerFinishOld ==
  /\ sk_pc = "finish_old"
  /\ SinkerCall(Rpc("finish", sk_part, EmptyGridBuffer), "start_new")
  /\ UNCHANGED <<sk_P, sk_heap, sk_part, sk_cur, sk_in>>
  /\ UNCHANGED <<heapVars, serverVars, fxVars, registryVars>>

\* client.start_sink_partition(current_partition_index), then
\* partition_index = current_partition_index.
SinkerStartNew ==
  /\ sk_pc = "start_new"
  /\ SinkerCall(Rpc("start", sk_cur.idx, EmptyGridBuffer), "sink")
  /\ sk_part' = IF sk_pc' = "sink" THEN sk_cur.idx ELSE sk_part
  /\ UNCHANGED <<sk_P, sk_heap, sk_cur, sk_in>>
  /\ UNCHANGED <<heapVars, serverVars, fxVars, registryVars>>

\* client.sink_grid_sample(partition_index, gridbuffer).
SinkerSink ==
  /\ sk_pc = "sink"
  /\ SinkerCall(Rpc("sink", sk_part, sk_cur.gb), "out")
  /\ UNCHANGED <<sk_P, sk_heap, sk_part, sk_cur, sk_in>>
  /\ UNCHANGED <<heapVars, serverVars, fxVars, registryVars>>

\* After the loop: client.finish_sink_partition(partition_index); Ok(()).
SinkerFinish ==
  /\ sk_pc = "final"
  /\ SinkerCall(Rpc("finish", sk_part, EmptyGridBuffer), "done")
  /\ UNCHANGED <<sk_P, sk_heap, sk_part, sk_cur, sk_in>>
  /\ UNCHANGED <<heapVars, serverVars, fxVars, registryVars>>

SinkerNext ==
  \/ SinkerReadFirst
  \/ SinkerHeartbeat
  \/ SinkerStartFirst
  \/ SinkerSinkFirst
  \/ SinkerPush
  \/ SinkerGetOut
  \/ SinkerFinishOld
  \/ SinkerStartNew
  \/ SinkerSink
  \/ SinkerFinish

SpecSinker == SinkerInit /\ [][SinkerNext]_vars

(***************************************************************************)
(* Claims about the GridSinker.                                            *)
(***************************************************************************)
IsSink(r) == r.op = "sink"

IsProtocol(r) == r.op # "heartbeat"

\* The buffers sent with sink_grid_sample, in send order.
SentBuffers ==
  LET sinks == SelectSeq(sk_rpc, IsSink)
  IN [i \in 1..Len(sinks) |-> sinks[i].gb]

\* The start / sink / finish requests, in send order, as <<op, partition>>.
ProtocolSeq ==
  LET reqs == SelectSeq(sk_rpc, IsProtocol)
  IN [i \in 1..Len(reqs) |-> <<reqs[i].op, reqs[i].p>>]

\* The partition index of every parsed input buffer (-1 for an empty one).
InputPartitions ==
  LET bufs == Parsed(sk_in)
  IN [i \in 1..Len(bufs) |->
        IF NumRows(bufs[i]) = 0 THEN -1
        ELSE PartitionIndexByTimestamp(bufs[i], sk_P).idx]

\* C7: the GridSinker sends everything before it closes.  In a run that
\* returns Ok, every row of every parsed input buffer has been sent in a
\* sink_grid_sample request, and no row remains in the WindowHeap.
C7_AllSentBeforeClose ==
  sk_pc = "done" =>
    /\ BagOfRows(Flatten(SentBuffers)) = BagOfRows(Flatten(Parsed(sk_in)))
    /\ sk_heap.heap = {}
    /\ sk_heap.gridrows = <<>>
    /\ sk_heap.out_gridbuffers = <<>>

\* C8, first part: every sink(p) follows a start(p) with only sinks between
\* them; a later start(new) directly follows finish(old) of the partition
\* that was open and is directly followed by the buffer; a run that returns
\* Ok ends with the finish of the open partition.
C8_ProtocolOrder ==
  LET q == ProtocolSeq
      n == Len(q)
  IN /\ \A i \in 1..n :
          q[i][1] = "sink" =>
            \E j \in 1..(i - 1) :
               /\ q[j] = <<"start", q[i][2]>>
               /\ \A m \in (j + 1)..(i - 1) : q[m][1] = "sink"
     /\ \A i \in 2..n :
          q[i][1] = "start" =>
            /\ q[i - 1][1] = "finish"
            /\ q[i - 1][2] # q[i][2]
            /\ i > 2 /\ q[i - 2][2] = q[i - 1][2] /\ q[i - 2][1] # "finish"
            /\ i < n => q[i + 1] = <<"sink", q[i][2]>>
     /\ sk_pc = "done" =>
          /\ n >= 3
          /\ q[n][1] = "finish"
          /\ q[n - 1][1] # "finish"
          /\ q[n - 1][2] = q[n][2]

\* C8, second part: for input whose partition indices are 9, 9, 10 the
\* requests are start(9), sink, sink, finish(9), start(10), sink, finish(10).
C8_Example ==
  (sk_pc = "done" /\ sk_P = 24 /\ InputPartitions = <<9, 9, 10>>) =>
     ProtocolSeq = << <<"start", 9>>, <<"sink", 9>>, <<"sink", 9>>,
                      <<"finish", 9>>, <<"start", 10>>, <<"sink", 10>>,
                      <<"finish", 10>> >>

\* C8: the RPC protocol order of one GridSinker, with the 9, 9, 10 scenario.
C8_RpcProtocol == C8_ProtocolOrder /\ C8_Example

\* C9: routing invariant.  Every sink_grid_sample sent with partition index p
\* carries a buffer whose row-0 timestamp, in seconds since midnight, lies in
\* [p * span, (p+1) * span) with span = 86400 / P.
C9_Routing ==
  \A i \in 1..Len(sk_rpc) :
     sk_rpc[i].op = "sink" =>
       /\ NumRows(sk_rpc[i].gb) > 0
       /\ LET sec  == GetSampleKey(sk_rpc[i].gb, 0)[1] % SecondsPerDay
              span == SecondsPerDay \div sk_P
          IN /\ sk_rpc[i].p * span <= sec
             /\ sec < (sk_rpc[i].p + 1) * span

\* A buffer that came out of the WindowHeap was routed to another partition
\* than the first buffer, and one made of rows of two partitions was sent.
C9_Witness ==
  /\ \E i, j \in 1..Len(sk_rpc) :
       /\ i < j
       /\ sk_rpc[i].op = "sink"
       /\ sk_rpc[j].op = "sink"
       /\ sk_rpc[i].p # sk_rpc[j].p
  /\ \E i \in 1..Len(sk_rpc) :
       /\ sk_rpc[i].op = "sink"
       /\ NumRows(sk_rpc[i].gb) > 1
       /\ PartitionIndexByTimestamp(sk_rpc[i].gb, sk_P).idx # sk_rpc[i].gb.rows[2][1] \div (SecondsPerDay \div sk_P)

\* C17: startup handshake.  A sink_grid_sample is sent only after a
\* heartbeat and then a start_sink_partition for the partition of the first
\* input buffer, and these are the first two requests of the run; after a
\* request has failed the run sends nothing more, so no sink_grid_sample is
\* sent when the heartbeat or the start fails.
C17_Handshake ==
  /\ [](\A i \in 1..Len(sk_rpc) :
          sk_rpc[i].op = "sink" =>
            /\ i >= 3
            /\ sk_rpc[1].op = "heartbeat"
            /\ sk_rpc[2].op = "start"
            /\ Parsed(sk_in) # <<>>
            /\ PartitionIndexByTimestamp(Parsed(sk_in)[1], sk_P).ok
            /\ sk_rpc[2].p = PartitionIndexByTimestamp(Parsed(sk_in)[1], sk_P).idx)
  /\ [][sk_pc = "err" => sk_rpc' = sk_rpc]_vars

\* The first buffer has been sent after the heartbeat and the start.
C17_Witness ==
  /\ Len(sk_rpc) = 3
  /\ sk_rpc[3].op = "sink"
  /\ sk_pc = "loop"

\* Every parsed input buffer is sorted by SampleKey.
InputBuffersSorted ==
  \A i \in 1..Len(sk_in) : sk_in[i].ok => SortedKeys(sk_in[i].gb.rows)

\* C10: order of what one GridSinker sends.  The rows of the buffers sent
\* with sink_grid_sample, in send order and with the first input buffer, are
\* non-decreasing by SampleKey (stated for input buffers that are sorted).
C10_SendOrder ==
  InputBuffersSorted => SortedKeys(Flatten(SentBuffers))

(***************************************************************************)
(* The server: one action per handler step and per worker step.            *)
(***************************************************************************)
ServerInit ==
  HeapIdle /\ SinkerIdle /\ ServerIdle /\ FxIdle /\ RegistryIdle

\* Remove element i of a sequence.
RemoveAt(s, i) == SubSeq(s, 1, i - 1) \o SubSeq(s, i + 1, Len(s))

\* start_sink_partition(sinker_id).  The handler has no await.
StartSinkPartition(sid) ==
  /\ sv_ncalls < MaxCalls
  /\ sv_ncalls' = sv_ncalls + 1
  /\ \/ \* Some(saver) => saver.start_partition(sinker_id)
        /\ sv_in_map
        /\ sv_sinker_ids' = sv_sinker_ids \cup {sid}
        /\ sv_active' = sv_active \cup {sid}
        /\ UNCHANGED <<sv_made, sv_in_map, sv_closed, sv_wpc>>
     \/ \* None => SampleSaver::new, start_partition, insert
        /\ ~sv_in_map /\ ~sv_made
        /\ sv_made' = TRUE
        /\ sv_wpc' = [w \in Workers |-> "create"]
        /\ sv_in_map' = TRUE
        /\ sv_sinker_ids' = {sid}
        /\ sv_active' = sv_active \cup {sid}
        /\ UNCHANGED sv_closed
     \/ \* None => SampleSaver::new fails in create_dir_all, after it has
        \* spawned the workers: the sender is dropped with the saver.
        /\ ~sv_in_map /\ ~sv_made
        /\ sv_made' = TRUE
        /\ sv_wpc' = [w \in Workers |-> "create"]
        /\ sv_closed' = TRUE
        /\ UNCHANGED <<sv_in_map, sv_sinker_ids, sv_active>>
  /\ UNCHANGED <<sv_chan, sv_info, sv_wheap, sv_file, sv_sorted, sv_fin,
                 sv_blocked, sv_shutdown, sv_accepted, sv_finished,
                 sv_open_at_close, sv_open_at_merge, sv_repeat_did,
                 sv_nmerge, sv_returned>>
  /\ UNCHANGED <<sv_success, sv_last_in, sv_facts>>
  /\ UNCHANGED sv_loaded
  /\ UNCHANGED <<heapVars, sinkerVars, fxVars, registryVars>>

\* SampleSaver::process: sender.send(req).await on the bounded channel.  The
\* send fails when the channel is closed, goes through when there is room,
\* and waits otherwise.
ChannelSendOpen(chan, closed) ==
  IF Len(chan) < ChannelCap THEN "sent" ELSE "full"

ChannelSend(chan, closed) ==
  IF closed THEN "closed"
  ELSE IF Len(chan) < ChannelCap THEN "sent" ELSE "full"

\* What the success response for gb adds to the record of the run.
AcceptFacts(gb, late) ==
  (IF SortedKeys(<<sv_last_in>> \o gb.rows) THEN {} ELSE {"unsorted_in"})
    \cup (IF late THEN {"late_accepted"} ELSE {})

LastRow(last, gb) ==
  IF gb.rows = <<>> THEN last ELSE gb.rows[Len(gb.rows)]

\* sink_grid_sample(gridbuffer): sample_savers.get(path_id), then
\* saver.process(req).await.
SinkGridSample(gb) ==
  /\ sv_ncalls < MaxCalls
  /\ sv_ncalls' = sv_ncalls + 1
  /\ IF ~sv_in_map
     THEN \* None => an error response
          /\ sv_facts' = sv_facts
          /\ UNCHANGED <<sv_chan, sv_blocked, sv_accepted, sv_last_in>>
     ELSE LET r == ChannelSend(sv_chan, sv_closed)
          IN CASE r = "closed" ->
                    \* Err(e) => an error response
                    /\ sv_facts' = sv_facts \cup {"late_rejected"}
                    /\ UNCHANGED <<sv_chan, sv_blocked, sv_accepted,
                                   sv_last_in>>
               [] r = "sent" ->
                    /\ sv_chan' = Append(sv_chan, gb)
                    /\ sv_accepted' = AddRows(sv_accepted, gb.rows)
                    /\ sv_last_in' = LastRow(sv_last_in, gb)
                    /\ sv_facts' = sv_facts \cup AcceptFacts(gb, sv_closed)
                    /\ UNCHANGED sv_blocked
               [] r = "full" ->
                    /\ sv_blocked' = Append(sv_blocked,
                                            [gb |-> gb, late |-> sv_closed])
                    /\ UNCHANGED <<sv_chan, sv_accepted, sv_last_in,
                                   sv_facts>>
  /\ UNCHANGED <<sv_made, sv_in_map, sv_sinker_ids, sv_closed, sv_info,
                 sv_wpc, sv_wheap, sv_file, sv_sorted, sv_fin, sv_shutdown,
                 sv_active, sv_finished, sv_open_at_close, sv_open_at_merge,
                 sv_repeat_did, sv_nmerge, sv_returned, sv_success>>
  /\ UNCHANGED sv_loaded
  /\ UNCHANGED <<heapVars, sinkerVars, fxVars, registryVars>>

\* A sink_grid_sample handler waiting in send goes on: the channel has room
\* (success) or has been closed (error).
SinkSendResumes(i) ==
  /\ i \in 1..Len(sv_blocked)
  /\ LET r == ChannelSend(sv_chan, sv_closed)
         b == sv_blocked[i]
     IN /\ r # "full"
        /\ IF r = "sent"
           THEN /\ sv_chan' = Append(sv_chan, b.gb)
                /\ sv_accepted' = AddRows(sv_accepted, b.gb.rows)
                /\ sv_last_in' = LastRow(sv_last_in, b.gb)
                /\ sv_facts' = sv_facts \cup AcceptFacts(b.gb, b.late)
           ELSE UNCHANGED <<sv_chan, sv_accepted, sv_last_in, sv_facts>>
  /\ sv_blocked' = RemoveAt(sv_blocked, i)
  /\ UNCHANGED <<sv_made, sv_in_map, sv_sinker_ids, sv_closed, sv_info,
                 sv_wpc, sv_wheap, sv_file, sv_sorted, sv_fin, sv_shutdown,
                 sv_ncalls, sv_active, sv_finished, sv_open_at_close,
                 sv_open_at_merge, sv_repeat_did, sv_nmerge, sv_returned,
                 sv_success>>
  /\ UNCHANGED sv_loaded
  /\ UNCHANGED <<heapVars, sinkerVars, fxVars, registryVars>>

\* finish_sink_partition(sinker_id), up to the wait for the workers:
\* finish_partition, is_sinkers_done, close_sender.
FinishSinkPartition(sid) ==
  /\ sv_ncalls < MaxCalls
  /\ sv_ncalls' = sv_ncalls + 1
  /\ sv_finished' = sv_finished \cup {sid}
  /\ sv_active' = sv_active \ {sid}
  /\ LET repeat == sid \in sv_finished /\ sid \notin sv_active
         ids    == sv_sinker_ids \ {sid}
     IN IF ~sv_in_map
        THEN \* None => an error response
             UNCHANGED <<sv_sinker_ids, sv_closed, sv_fin, sv_open_at_close,
                         sv_repeat_did>>
        ELSE /\ sv_sinker_ids' = ids
             /\ IF ids = {}
                THEN /\ sv_closed' = TRUE
                     /\ sv_fin' = Append(sv_fin, [sid |-> sid, repeat |-> repeat,
                                                   pc |-> "poll"])
                     /\ sv_open_at_close' = sv_open_at_close \cup sv_active'
                     /\ sv_repeat_did' =
                          sv_repeat_did
                            \cup (IF repeat THEN {"close"} ELSE {})
                            \cup (IF repeat /\ ids # sv_sinker_ids
                                  THEN {"unregister"} ELSE {})
                ELSE /\ sv_repeat_did' =
                          sv_repeat_did
                            \cup (IF repeat /\ ids # sv_sinker_ids
                                  THEN {"unregister"} ELSE {})
                     /\ UNCHANGED <<sv_closed, sv_fin, sv_open_at_close>>
  /\ UNCHANGED <<sv_made, sv_in_map, sv_chan, sv_info, sv_wpc, sv_wheap,
                 sv_file, sv_sorted, sv_blocked, sv_shutdown, sv_accepted,
                 sv_open_at_merge, sv_nmerge, sv_returned>>
  /\ UNCHANGED <<sv_success, sv_last_in, sv_facts>>
  /\ UNCHANGED sv_loaded
  /\ UNCHANGED <<heapVars, sinkerVars, fxVars, registryVars>>

\* The worker still has rows in its WindowHeap or in the output stage.
HasRowsLeft(h) == h.heap # {} \/ h.gridrows # <<>>

\* What a start of merge_sort adds to the record of the run.
MergeFacts ==
  (IF \E w \in Workers : sv_wpc[w] = "failed"
   THEN {"merge_after_failure"} ELSE {})
  \cup (IF \E w \in Workers : sv_wpc[w] \in {"create", "recv", "store_recv"}
        THEN {"merge_while_running"} ELSE {})
  \cup (IF \E w \in Workers : sv_wpc[w] = "drain" /\ HasRowsLeft(sv_wheap[w])
        THEN {"merge_while_draining"} ELSE {})
  \cup (IF \E w \in Workers : sv_wpc[w] \notin {"done", "failed"}
        THEN {"merge_before_end"} ELSE {})
  \cup (IF LinesPerFile(sv_info) # Len(AllLines(sv_file, 0)) \div NumWorkers
        THEN {"merge_lines_per_file"} ELSE {})

\* The wait of finish_sink_partition ends (is_workers_done), and merge_sort
\* runs.  While is_workers_done is false the handler sleeps and polls again.
FinishMerge(i) ==
  /\ i \in 1..Len(sv_fin)
  /\ sv_fin[i].pc = "poll"
  /\ IsWorkersDone(sv_info)
  /\ \E r \in MergeSort(sv_file, sv_info) :
       /\ sv_sorted' = Overlay(sv_sorted, r.out)
       /\ sv_fin' = IF r.ok
                    THEN [sv_fin EXCEPT ![i].pc = "remove"]
                    ELSE RemoveAt(sv_fin, i)
  /\ sv_nmerge' = sv_nmerge + 1
  /\ sv_open_at_merge' = sv_open_at_merge \cup sv_active
  /\ sv_repeat_did' = sv_repeat_did
                        \cup (IF sv_fin[i].repeat THEN {"merge"} ELSE {})
  /\ UNCHANGED <<sv_made, sv_in_map, sv_sinker_ids, sv_chan, sv_closed,
                 sv_info, sv_wpc, sv_wheap, sv_file, sv_blocked, sv_shutdown,
                 sv_ncalls, sv_accepted, sv_active, sv_finished,
                 sv_open_at_close, sv_returned>>
  /\ sv_facts' = sv_facts \cup MergeFacts
  /\ UNCHANGED <<sv_success, sv_last_in>>
  /\ UNCHANGED sv_loaded
  /\ UNCHANGED <<heapVars, sinkerVars, fxVars, registryVars>>

\* is_done: sample_savers.remove(path_id), which waits until no other
\* handler holds a reference into the map; then the success response.
FinishRemove(i) ==
  /\ i \in 1..Len(sv_fin)
  /\ sv_fin[i].pc = "remove"
  /\ sv_blocked = <<>>
  /\ \A j \in 1..Len(sv_fin) : sv_fin[j].pc # "poll"
  /\ sv_in_map' = FALSE
  /\ sv_fin' = RemoveAt(sv_fin, i)
  /\ sv_returned' = TRUE
  /\ UNCHANGED <<sv_made, sv_sinker_ids, sv_chan, sv_closed, sv_info, sv_wpc,
                 sv_wheap, sv_file, sv_sorted, sv_blocked, sv_shutdown,
                 sv_ncalls, sv_accepted, sv_active, sv_finished,
                 sv_open_at_close, sv_open_at_merge, sv_repeat_did,
                 sv_nmerge>>
  /\ sv_facts' = sv_facts \cup (IF \E w \in Workers : sv_wpc[w] = "failed"
                                 THEN {"success_after_failure"} ELSE {})
  /\ UNCHANGED <<sv_success, sv_last_in>>
  /\ UNCHANGED sv_loaded
  /\ UNCHANGED <<heapVars, sinkerVars, fxVars, registryVars>>

\* SampleSaverWorker::run: File::create(filename)?
WorkerCreate(w) ==
  /\ sv_wpc[w] = "create"
  /\ \/ /\ sv_wpc' = [sv_wpc EXCEPT ![w] = "recv"]
        /\ sv_file' = [sv_file EXCEPT ![w] = [exists |-> TRUE, lines |-> <<>>]]
     \/ /\ sv_wpc' = [sv_wpc EXCEPT ![w] = "failed"]
        /\ UNCHANGED sv_file
  /\ UNCHANGED <<sv_made, sv_in_map, sv_sinker_ids, sv_chan, sv_closed,
                 sv_info, sv_wheap, sv_sorted, sv_fin, sv_blocked,
                 sv_shutdown, sv_ncalls, sv_accepted, sv_active, sv_finished,
                 sv_open_at_close, sv_open_at_merge, sv_repeat_did,
                 sv_nmerge, sv_returned>>
  /\ UNCHANGED <<sv_success, sv_last_in, sv_facts>>
  /\ UNCHANGED sv_loaded
  /\ UNCHANGED <<heapVars, sinkerVars, fxVars, registryVars>>

\* recv() returns Ok(req): push, write the ready buffers, count the lines.
\* The worker stops when the push or a write fails.
WorkerRecv(w) ==
  /\ sv_wpc[w] = "recv"
  /\ sv_chan # <<>>
  /\ sv_chan' = Tail(sv_chan)
  /\ \E r \in Push(sv_wheap[w], Head(sv_chan)) :
       IF ~r.ok
       THEN /\ sv_wpc' = [sv_wpc EXCEPT ![w] = "failed"]
            /\ sv_wheap' = [sv_wheap EXCEPT ![w] = r.h]
            /\ UNCHANGED <<sv_file, sv_info, sv_loaded>>
       ELSE LET o == WriteOuts(r.h, sv_file[w].lines, 0)
                c == WorkerInfoCell(w)
            IN /\ sv_wheap' = [sv_wheap EXCEPT ![w] = o.h]
               /\ \E j \in WritesDone(o.n) :
                    /\ sv_file' = [sv_file EXCEPT ![w].lines =
                                     LinesWritten(sv_file[w].lines, o.lines, j)]
                    /\ IF j = 0
                       THEN /\ sv_wpc' = IF j < o.n
                                         THEN [sv_wpc EXCEPT ![w] = "failed"]
                                         ELSE sv_wpc
                            /\ UNCHANGED <<sv_info, sv_loaded>>
                       ELSE /\ sv_loaded' =
                                 [sv_loaded EXCEPT
                                    ![w] = TotalLoaded(sv_info[c].total, j)]
                            /\ sv_info' =
                                 [sv_info EXCEPT
                                    ![c].total = TotalLoaded(@, j)]
                            /\ sv_wpc' =
                                 [sv_wpc EXCEPT
                                    ![w] = IF j < o.n THEN "store_failed"
                                           ELSE "store_recv"]
  /\ UNCHANGED <<sv_made, sv_in_map, sv_sinker_ids, sv_closed, sv_sorted,
                 sv_fin, sv_blocked, sv_shutdown, sv_ncalls, sv_accepted,
                 sv_active, sv_finished, sv_open_at_close, sv_open_at_merge,
                 sv_repeat_did, sv_nmerge, sv_returned>>
  /\ UNCHANGED <<sv_success, sv_last_in, sv_facts>>
  /\ UNCHANGED <<heapVars, sinkerVars, fxVars, registryVars>>

\* The store of worker_info.total += 1: the value loaded plus one, whatever
\* the cell holds by now.  Then the worker goes on.
WorkerStore(w) ==
  /\ sv_wpc[w] \in {"store_recv", "store_failed", "store_done"}
  /\ sv_info' = [sv_info EXCEPT
                   ![WorkerInfoCell(w)].total = sv_loaded[w] + 1]
  /\ sv_loaded' = [sv_loaded EXCEPT ![w] = 0]
  /\ sv_wpc' = [sv_wpc EXCEPT
                  ![w] = CASE sv_wpc[w] = "store_recv"   -> "recv"
                           [] sv_wpc[w] = "store_failed" -> "failed"
                           [] sv_wpc[w] = "store_done"   -> "done"]
  /\ UNCHANGED <<sv_made, sv_in_map, sv_sinker_ids, sv_chan, sv_closed,
                 sv_wheap, sv_file, sv_sorted, sv_fin, sv_blocked,
                 sv_shutdown, sv_ncalls, sv_accepted, sv_active, sv_finished,
                 sv_open_at_close, sv_open_at_merge, sv_repeat_did,
                 sv_nmerge, sv_returned>>
  /\ UNCHANGED <<sv_success, sv_last_in, sv_facts>>
  /\ UNCHANGED <<heapVars, sinkerVars, fxVars, registryVars>>

\* recv() returns Err (the channel is closed and empty), or the shutdown
\* branch of select! is taken: set_worker_state(Success); break.
WorkerSetSuccess(w) ==
  /\ sv_wpc[w] = "recv"
  /\ \/ sv_chan = <<>> /\ sv_closed
     \/ sv_shutdown
  /\ sv_info' = [sv_info EXCEPT ![WorkerInfoCell(w)].worker_state = "Success"]
  /\ sv_wpc' = [sv_wpc EXCEPT ![w] = "drain"]
  /\ UNCHANGED <<sv_made, sv_in_map, sv_sinker_ids, sv_chan, sv_closed,
                 sv_wheap, sv_file, sv_sorted, sv_fin, sv_blocked,
                 sv_shutdown, sv_ncalls, sv_accepted, sv_active, sv_finished,
                 sv_open_at_close, sv_open_at_merge, sv_repeat_did,
                 sv_nmerge, sv_returned>>
  /\ UNCHANGED <<sv_success, sv_last_in, sv_facts>>
  /\ UNCHANGED sv_loaded
  /\ UNCHANGED <<heapVars, sinkerVars, fxVars, registryVars>>

\* After the loop: process_remain_data, write the ready buffers, Ok(()).
WorkerDrain(w) ==
  /\ sv_wpc[w] = "drain"
  /\ \E h \in ProcessRemainData(sv_wheap[w]) :
       LET o == WriteOuts(h, sv_file[w].lines, 0)
           c == WorkerInfoCell(w)
       IN /\ sv_wheap' = [sv_wheap EXCEPT ![w] = o.h]
          /\ \E j \in WritesDone(o.n) :
               /\ sv_file' = [sv_file EXCEPT ![w].lines =
                                LinesWritten(sv_file[w].lines, o.lines, j)]
               /\ IF j = 0
                  THEN /\ sv_wpc' = [sv_wpc EXCEPT ![w] =
                                       IF j < o.n THEN "failed" ELSE "done"]
                       /\ UNCHANGED <<sv_info, sv_loaded>>
                  ELSE /\ sv_loaded' =
                            [sv_loaded EXCEPT
                               ![w] = TotalLoaded(sv_info[c].total, j)]
                       /\ sv_info' =
                            [sv_info EXCEPT ![c].total = TotalLoaded(@, j)]
                       /\ sv_wpc' =
                            [sv_wpc EXCEPT
                               ![w] = IF j < o.n THEN "store_failed"
                                      ELSE "store_done"]
  /\ UNCHANGED <<sv_made, sv_in_map, sv_sinker_ids, sv_chan, sv_closed,
                 sv_sorted, sv_fin, sv_blocked, sv_shutdown, sv_ncalls,
                 sv_accepted, sv_active, sv_finished, sv_open_at_close,
                 sv_open_at_merge, sv_repeat_did, sv_nmerge, sv_returned>>
  /\ UNCHANGED <<sv_success, sv_last_in, sv_facts>>
  /\ UNCHANGED <<heapVars, sinkerVars, fxVars, registryVars>>

\* The process receives a termination signal: on_shutdown_requested.
ShutdownRequested ==
  /\ sv_made
  /\ ~sv_shutdown
  /\ sv_shutdown' = TRUE
  /\ UNCHANGED <<sv_made, sv_in_map, sv_sinker_ids, sv_chan, sv_closed,
                 sv_info, sv_wpc, sv_wheap, sv_file, sv_sorted, sv_fin,
                 sv_blocked, sv_ncalls, sv_accepted, sv_active, sv_finished,
                 sv_open_at_close, sv_open_at_merge, sv_repeat_did,
                 sv_nmerge, sv_returned>>
  /\ UNCHANGED <<sv_success, sv_last_in, sv_facts>>
  /\ UNCHANGED sv_loaded
  /\ UNCHANGED <<heapVars, sinkerVars, fxVars, registryVars>>

ServerNext ==
  \/ \E sid \in SinkerIds : StartSinkPartition(sid)
  \/ \E gb \in SinkBuffers : SinkGridSample(gb)
  \/ \E i \in 1..MaxCalls : SinkSendResumes(i)
  \/ \E sid \in SinkerIds : FinishSinkPartition(sid)
  \/ \E i \in 1..MaxCalls : FinishMerge(i)
  \/ \E i \in 1..MaxCalls : FinishRemove(i)
  \/ \E w \in Workers : WorkerCreate(w)
  \/ \E w \in Workers : WorkerRecv(w)
  \/ \E w \in Workers : WorkerStore(w)
  \/ \E w \in Workers : WorkerSetSuccess(w)
  \/ \E w \in Workers : WorkerDrain(w)
  \/ ShutdownRequested

SpecServer == ServerInit /\ [][ServerNext]_vars

(***************************************************************************)
(* Claims about the server.                                                *)
(***************************************************************************)

\* C3: end-to-end completeness of a partition.  In a run in which all
\* registered sinkers have finished and all workers have ended in Success,
\* once the closing finish_sink_partition has returned success, the multiset
\* of the rows in the files of path_sorted equals the multiset of the rows of
\* the requests for which sink_grid_sample returned success.
C3_Completeness ==
  ( /\ sv_returned
    /\ sv_active = {}
    /\ \A w \in Workers : sv_wpc[w] = "done"
    /\ IsWorkersDone(sv_info) )
  => BagOfRows(SortedRows(sv_sorted)) = sv_accepted

\* C4: global order after merge.  After merge_sort has finished, the rows of
\* path_sorted/*.grid, files taken in lexicographic file-name order, are
\* non-decreasing by SampleKey.
C4_GlobalOrder ==
  sv_nmerge > 0 => SortedKeys(SortedRows(sv_sorted))

\* C5: a partition closes only when all registered sinkers have finished.
\* Whenever the channel is closed or merge_sort is started, no sinker that
\* called start_sink_partition is still without its finish_sink_partition.
C5_ClosesWhenAllFinished ==
  /\ sv_open_at_close = {}
  /\ sv_open_at_merge = {}

\* C6: a repeated finish is a no-op.  A finish_sink_partition for a sinker
\* that has already finished unregisters no sinker, does not close the
\* channel again and does not start a second wait and merge_sort.
C6_RepeatedFinishNoop ==
  sv_repeat_did = {}

\* C11: order inside one worker file.  When the requests answered with
\* success form a sorted stream, the lines a SampleSaverWorker has appended
\* to its intermediate file, in file order, are non-decreasing by SampleKey,
\* the lines of the final drain included.
C11_WorkerFileOrder ==
  "unsorted_in" \notin sv_facts
    => \A w \in Workers : SortedKeys(Flatten(sv_file[w].lines))

\* C14: SUCCESS marks completion.  When the finish_sink_partition that
\* closed the partition has returned success, the file SUCCESS exists in the
\* partition's path.
C14_SuccessFile ==
  sv_returned => sv_success

\* C15: a single failed worker fails the whole partition.  A worker that has
\* stopped with an error has the state Failed, merge_sort is not started
\* after a worker has stopped with an error, and no closing
\* finish_sink_partition returns success after that.
C15_FailedWorker ==
  /\ \A w \in Workers :
       sv_wpc[w] = "failed"
         => sv_info[WorkerInfoCell(w)].worker_state = "Failed"
  /\ "merge_after_failure" \notin sv_facts
  /\ "success_after_failure" \notin sv_facts

\* C16: producers after close get an error.  A sink_grid_sample that arrives
\* after the channel of the saver has been closed is never answered with
\* success and its buffer never enters the channel, the only way into the
\* intermediate and sorted files.
C16_ErrorAfterClose ==
  /\ "late_accepted" \notin sv_facts
  /\ \A i \in 1..Len(sv_blocked) : ~sv_blocked[i].late

C16_Witness ==
  /\ "late_rejected" \in sv_facts
  /\ sv_in_map
  /\ \E w \in Workers : sv_file[w].lines # <<>>

\* C21: bounded number of output files.  When merge_sort has only run after
\* all workers had ended, path_sorted holds at most K (worker_num) files,
\* whatever the number of lines the workers wrote.
C21_BoundedFiles ==
  "merge_before_end" \notin sv_facts => Len(sv_sorted) <= NumWorkers

\* C25: the merge starts only when all K workers are done.
\* is_workers_done() is true only when every worker has itself left its
\* receive loop, never because only some of the workers have, and merge_sort
\* is never started while a worker is still receiving.
C25_AllWorkersDone ==
  /\ IsWorkersDone(sv_info)
       => \A w \in Workers : sv_wpc[w] \notin {"create", "recv", "store_recv"}
  /\ "merge_while_running" \notin sv_facts

\* C26: Success is published after the flush.  A worker that has left its
\* receive loop and still has rows to write has not set the state Success,
\* and merge_sort never starts while a worker still has rows to write.
C26_SuccessAfterFlush ==
  /\ \A w \in Workers :
       (sv_wpc[w] = "drain" /\ HasRowsLeft(sv_wheap[w]))
         => sv_info[WorkerInfoCell(w)].worker_state # "Success"
  /\ "merge_while_draining" \notin sv_facts

\* C29: lines-per-file bookkeeping.  When the workers have ended, the total
\* of each worker is the number of lines in its own file, the lines_per_file
\* merge_sort computes is floor(T / K), T being the number of lines in all
\* worker files, and no merge_sort has used another value.
C29_LinesPerFile ==
  /\ (\A w \in Workers : sv_wpc[w] = "done")
       => /\ \A w \in Workers :
               sv_info[WorkerInfoCell(w)].total = Len(sv_file[w].lines)
          /\ LinesPerFile(sv_info)
               = Len(AllLines(sv_file, 0)) \div NumWorkers
  /\ "merge_lines_per_file" \notin sv_facts

\* The steps the runtime takes by itself: a handler that waits goes on, and
\* a worker task runs.
ServerProgress ==
  \/ \E i \in 1..MaxCalls : SinkSendResumes(i)
  \/ \E i \in 1..MaxCalls : FinishMerge(i)
  \/ \E i \in 1..MaxCalls : FinishRemove(i)
  \/ \E w \in Workers : WorkerCreate(w)
  \/ \E w \in Workers : WorkerRecv(w)
  \/ \E w \in Workers : WorkerStore(w)
  \/ \E w \in Workers : WorkerSetSuccess(w)
  \/ \E w \in Workers : WorkerDrain(w)

\* The server under a runtime that runs every task that can run.
SpecServerLive == ServerInit /\ [][ServerNext]_vars /\ WF_vars(ServerProgress)

\* C35: the closing finish terminates.  Once a finish_sink_partition has
\* closed the channel and waits for the workers, eventually no worker is in
\* the Running state any more, and eventually the handler has returned.
C35_FinishTerminates ==
  /\ (sv_fin # <<>>) ~>
       (\A w \in Workers : sv_info[WorkerInfoCell(w)].worker_state # "Running")
  /\ (sv_fin # <<>>) ~> (sv_fin = <<>>)

\* C40: no dead saver stays registered.  When sample_savers holds the saver
\* and its channel is closed, a finish_sink_partition that closed it is
\* still being handled: once it has returned, the saver is out of the map.
C40_NoDeadSaver ==
  (sv_in_map /\ sv_closed) => sv_fin # <<>>

(***************************************************************************)
(* The partition index of a timestamp, in the sinker and in the meta       *)
(* service.                                                                *)
(***************************************************************************)
NumTimestamps == 12
NumPartitionCounts == 5

TimestampSeq ==
  << 0, 12341, 12342, 12343, 32400, 35999, 36000, 86399, 86400, 98742,
     122400, 172799, 3455, 3456 >>

PartitionCountSeq == << 1, 7, 24, 25, 1000, 2000 >>

Timestamps ==
  {TimestampSeq[i] : i \in 1..Min2(NumTimestamps, Len(TimestampSeq))}

PartitionCountsPerDay ==
  {PartitionCountSeq[i] : i \in 1..Min2(NumPartitionCounts, Len(PartitionCountSeq))}

\* A one-row buffer whose row has the timestamp ts.
RowAt(ts) == GridBuffer(<< <<ts, 0, 0, 0>> >>, 1)

\* meta_info::get_partition_infos: partition_index.  The product is a u32 in
\* the code; it stays below 2^32 for every P up to 49710.
MetaPartitionIndex(ts, P) ==
  LET seconds_in_day == ts % SecondsPerDay
  IN (seconds_in_day * P) \div SecondsPerDay

PartitionInit ==
  /\ HeapIdle /\ SinkerIdle /\ ServerIdle /\ RegistryIdle
  /\ fx_pc = "input"
  /\ fx_arg \in [ts : Timestamps, P : PartitionCountsPerDay]
  /\ fx_res = <<>>

\* The sinker and the meta service compute the index of the same timestamp.
ComputePartitionIndex ==
  /\ fx_pc = "input"
  /\ fx_pc' = "done"
  /\ fx_res' = [sinker |-> PartitionIndexByTimestamp(RowAt(fx_arg.ts), fx_arg.P),
                meta   |-> MetaPartitionIndex(fx_arg.ts, fx_arg.P)]
  /\ UNCHANGED fx_arg
  /\ UNCHANGED <<heapVars, sinkerVars, serverVars, registryVars>>

PartitionNext == ComputePartitionIndex

SpecPartition == PartitionInit /\ [][PartitionNext]_vars

\* C18: partition index formula.  The index the sinker computes from a row's
\* timestamp is floor((seconds since midnight * P) / 86400), lies in 0..P-1,
\* and is the index the meta service computes for the timestamp.
C18_PartitionFormula ==
  fx_pc = "done" =>
    /\ fx_res.sinker.ok
    /\ fx_res.sinker.idx =
         ((fx_arg.ts % SecondsPerDay) * fx_arg.P) \div SecondsPerDay
    /\ fx_res.sinker.idx \in 0..(fx_arg.P - 1)
    /\ fx_res.sinker.idx = fx_res.meta

(***************************************************************************)
(* merge_sort applied to worker files.                                     *)
(***************************************************************************)
MaxLines == 3
NumMergeLines == 4

\* The lines a worker file can hold: buffers of at most SaverBatch rows.
MergeLineSeq == << BufferSeq[1], BufferSeq[2], BufferSeq[3], BufferSeq[4],
                  BufferSeq[10] >>

MergeLines ==
  {MergeLineSeq[i] : i \in 1..Min2(NumMergeLines, Len(MergeLineSeq))}

\* The sorted worker files with 1..MaxLines lines.
WorkerFiles ==
  {f \in UNION {[1..n -> MergeLines] : n \in 1..MaxLines} :
     SortedKeys(Flatten(f))}

\* The K worker files merge_sort opens: each is empty or sorted.
MergeFiles ==
  {[j \in Workers |-> [exists |-> TRUE, lines |-> g[j]]] :
     g \in [Workers -> WorkerFiles \cup {<<>>}]}

\* The lines of the files: <<j, p>> is line p of the file of worker j.
LinesOf(fs) ==
  {<<j, p>> : j \in Workers, p \in 1..MaxLines} \cap
  {jp \in Workers \X (1..MaxLines) : jp[2] <= Len(fs[jp[1]].lines)}

\* The files with line bad unreadable; bad = <<>> leaves all lines readable.
WithUnreadable(fs, bad) ==
  IF bad = <<>> THEN fs
  ELSE [fs EXCEPT ![bad[1]].lines[bad[2]] = UnreadableLine]

\* The WorkerInfo cells after the workers have ended: the cell all workers
\* share holds Success and the number of lines written.
InfosAfter(fs) ==
  [c \in Workers |->
     IF c = WorkerInfoCell(c)
     THEN [worker_state |-> "Success", total |-> Len(AllLines(fs, 0))]
     ELSE WorkerInfoDefault]

MergeInit ==
  /\ HeapIdle /\ SinkerIdle /\ ServerIdle /\ RegistryIdle
  /\ fx_pc = "input"
  /\ \E fs \in MergeFiles :
       \E bad \in {<<>>} \cup LinesOf(fs) :
         fx_arg = [files |-> WithUnreadable(fs, bad), bad |-> bad]
  /\ fx_res = <<>>

ApplyMergeSort ==
  /\ fx_pc = "input"
  /\ fx_pc' = "done"
  /\ fx_res' \in MergeSort(fx_arg.files, InfosAfter(fx_arg.files))
  /\ UNCHANGED fx_arg
  /\ UNCHANGED <<heapVars, sinkerVars, serverVars, registryVars>>

MergeNext == ApplyMergeSort

SpecMerge == MergeInit /\ [][MergeNext]_vars

\* C20: merge with an empty intermediate file.  When one of the worker
\* files is empty, merge_sort completes, reads every line of the other
\* files, and its output holds all rows of those files in globally sorted
\* order.
C20_MergeWithEmptyFile ==
  ( /\ fx_pc = "done"
    /\ fx_arg.bad = <<>>
    /\ Cardinality({j \in Workers : fx_arg.files[j].lines = <<>>}) = 1 ) =>
    /\ fx_res.ok
    /\ \A j \in Workers : fx_res.pos[j] = Len(fx_arg.files[j].lines)
    /\ BagOfRows(SortedRows(fx_res.out))
         = BagOfRows(Flatten(AllLines(fx_arg.files, 0)))
    /\ SortedKeys(SortedRows(fx_res.out))

\* The readers that have returned EOF when merge_sort has ended.
Exhausted == {j \in Workers : fx_res.pos[j] >= Len(fx_arg.files[j].lines)}

\* C27: the merge reads every reader to its end.  When merge_sort has
\* completed on readable files, every line of every worker file has been
\* read and pushed, and count_done, which counts a reader once, is not
\* greater than the number of readers that have returned EOF.
C27_ReadersToEnd ==
  (fx_pc = "done" /\ fx_arg.bad = <<>> /\ fx_res.ok) =>
    /\ \A j \in Workers : fx_res.pos[j] = Len(fx_arg.files[j].lines)
    /\ fx_res.count_done <= Cardinality(Exhausted)

\* C28: merge correctness does not depend on the reader hint.  Whatever
\* reader get_out_reader_index names for the next read, when merge_sort has
\* completed on readable, individually sorted worker files, its output is
\* non-decreasing by SampleKey and contains every input row.
C28_AnyReaderPolicy ==
  (fx_pc = "done" /\ fx_arg.bad = <<>> /\ fx_res.ok) =>
    /\ SortedKeys(SortedRows(fx_res.out))
    /\ \A k \in AllKeys :
         CountKey(SortedRows(fx_res.out), k)
           = CountKey(Flatten(AllLines(fx_arg.files, 0)), k)

\* C30: read errors during the merge.  When a line of a reader that has
\* already contributed a line cannot be read, merge_sort returns an error.
C30_ReadErrorFails ==
  ( /\ fx_pc = "done"
    /\ fx_arg.bad # <<>>
    /\ fx_arg.bad[2] > 1
    /\ fx_res.pos[fx_arg.bad[1]] >= fx_arg.bad[2] ) =>
    ~fx_res.ok

(***************************************************************************)
(* is_keys_equal applied to two slices.                                    *)
(***************************************************************************)
MaxKeyLen == 5

\* The values of the elements.
KeyIdSeq == << 2, 4, 5 >>
NumKeyIds == 2

KeyIds == {KeyIdSeq[i] : i \in 1..Min2(NumKeyIds, Len(KeyIdSeq))}

KeySlices == UNION {[1..n -> KeyIds] : n \in 0..MaxKeyLen}

KeysInit ==
  /\ HeapIdle /\ SinkerIdle /\ ServerIdle /\ RegistryIdle
  /\ fx_pc = "input"
  /\ fx_arg \in [a : KeySlices, b : KeySlices]
  /\ fx_res = <<>>

ApplyIsKeysEqual ==
  /\ fx_pc = "input"
  /\ fx_pc' = "done"
  /\ fx_res' = IsKeysEqual(fx_arg.a, fx_arg.b)
  /\ UNCHANGED fx_arg
  /\ UNCHANGED <<heapVars, sinkerVars, serverVars, registryVars>>

KeysNext == ApplyIsKeysEqual

SpecKeys == KeysInit /\ [][KeysNext]_vars

\* C23: is_keys_equal(a, b) returns true exactly when a and b have the same
\* length and are element-wise equal, for slices of every length, and it
\* never fails.
C23_KeysEqual ==
  fx_pc = "done" =>
    fx_res = (IF fx_arg.a = fx_arg.b THEN "true" ELSE "false")

(***************************************************************************)
(* LocalFileReader: an iterator over the lines of a list of files.         *)
(***************************************************************************)
MaxFiles == 3
MaxFileLines == 2
MaxNoneCalls == 2

\* Line k of the i-th file name; every line of the input is different.
FileLine(i, k) == i * 10 + k

\* The contents of the files of filenames: a sequence of sequences of lines.
FileLists ==
  UNION { { [i \in 1..n |-> [k \in 1..len[i] |-> FileLine(i, k)]] :
              len \in [1..n -> 0..MaxFileLines] } : n \in 0..MaxFiles }

\* LocalFileReader::new: reader is None (0), pos is 0.  `reader` is the
\* index of the open file and `off` the number of lines read from it.
LocalFileReaderNew == [pos |-> 0, reader |-> 0, off |-> 0]

\* LocalFileReader::open_next_file.
OpenNextFile(rd, files) ==
  IF rd.pos >= Len(files)
  THEN [ok |-> FALSE, rd |-> rd]
  ELSE [ok |-> TRUE,
        rd |-> [pos |-> rd.pos + 1, reader |-> rd.pos + 1, off |-> 0]]

RECURSIVE ReaderNext(_, _)
RECURSIVE ReadLineFromNextFile(_, _)
RECURSIVE ReadLineFromNextFileOnce(_, _)

\* read_line_from_next_file without the step over a file with no lines.
ReadLineFromNextFileOnce(rd, files) ==
  LET o == OpenNextFile(rd, files)
  IN IF o.ok /\ files[o.rd.reader] # <<>>
     THEN ReaderNext(o.rd, files)
     ELSE [some |-> FALSE, line |-> 0, rd |-> o.rd]

\* LocalFileReader::read_line_from_next_file.
ReadLineFromNextFile(rd, files) ==
  LET o == OpenNextFile(rd, files)
  IN IF o.ok
     THEN ReaderNext(o.rd, files)
     ELSE [some |-> FALSE, line |-> 0, rd |-> rd]

\* LocalFileReader::next.
ReaderNext(rd, files) ==
  IF rd.reader # 0 /\ rd.off < Len(files[rd.reader])
  THEN [some |-> TRUE,
        line |-> files[rd.reader][rd.off + 1],
        rd   |-> [rd EXCEPT !.off = @ + 1]]
  ELSE ReadLineFromNextFile(rd, files)

RECURSIVE ConcatLines(_)
ConcatLines(files) ==
  IF files = <<>> THEN <<>> ELSE Head(files) \o ConcatLines(Tail(files))

ReaderInit ==
  /\ HeapIdle /\ SinkerIdle /\ ServerIdle /\ RegistryIdle
  /\ fx_pc = "iter"
  /\ fx_arg \in FileLists
  /\ fx_res = [rd |-> LocalFileReaderNew, out |-> <<>>, nones |-> 0]

\* One call of next() by the consumer of the iterator.
CallNext ==
  /\ fx_pc = "iter"
  /\ fx_res.nones < MaxNoneCalls
  /\ LET r == ReaderNext(fx_res.rd, fx_arg)
     IN fx_res' = [rd    |-> r.rd,
                   out   |-> IF r.some THEN Append(fx_res.out, r.line)
                             ELSE fx_res.out,
                   nones |-> IF r.some THEN fx_res.nones
                             ELSE fx_res.nones + 1]
  /\ UNCHANGED <<fx_pc, fx_arg>>
  /\ UNCHANGED <<heapVars, sinkerVars, serverVars, registryVars>>

ReaderSpecNext == CallNext

SpecReader == ReaderInit /\ [][ReaderSpecNext]_vars

RegistryInit ==
  /\ HeapIdle /\ SinkerIdle /\ ServerIdle /\ FxIdle
  /\ rg_host \in {h \in [Threads -> Hosts] : h[1] = 1}
  /\ rg_map = 0
  /\ rg_savers = <<>>
  /\ rg_th = [t \in Threads |-> ThreadNew]
  /\ rg_inter = 0
  /\ rg_sorted = 0
  /\ rg_completed = {}
  /\ rg_facts = {}

\* The handlers that hold a Ref into sample_savers: insert and remove take
\* the write lock of the shard and wait for them.
HoldsRef(t) == rg_th[t].pc \in {"fin_test", "fin_wait", "fin_merge"}

\* GridSinker::run calls start_sink_partition for partition p, at its start
\* or after the finish of a crossing; the handler does
\* sample_savers.get(path_id), and in the Some arm saver.start_partition.
StartGet(t, p) ==
  /\ \/ rg_th[t].pc = "idle"
     \/ rg_th[t].pc = "cross" /\ p # rg_th[t].part
  /\ IF rg_map # 0
     THEN /\ rg_savers' = [rg_savers EXCEPT
                             ![rg_map].sinker_ids = @ \cup {SinkerIdOf(t)},
                             ![rg_map].parts = @ \cup {p}]
          /\ rg_th' = [rg_th EXCEPT ![t].pc = "sinking", ![t].part = p,
                                    ![t].reg = rg_map, ![t].nsink = 0]
     ELSE /\ rg_th' = [rg_th EXCEPT ![t].pc = "start_new", ![t].part = p,
                                    ![t].nsink = 0]
          /\ UNCHANGED rg_savers
  /\ UNCHANGED <<rg_host, rg_map, rg_inter, rg_sorted, rg_completed,
                 rg_facts>>
  /\ UNCHANGED <<heapVars, sinkerVars, serverVars, fxVars>>

\* The None arm: SampleSaver::new, which spawns the workers,
\* saver.start_partition, and sample_savers.insert(path_id, saver), which
\* replaces and drops the saver the map holds under the key.
StartInsert(t) ==
  /\ rg_th[t].pc = "start_new"
  /\ \A u \in Threads : ~HoldsRef(u)
  /\ LET new == Len(rg_savers) + 1
         old == IF rg_map = 0
                THEN rg_savers
                ELSE [rg_savers EXCEPT ![rg_map].closed = TRUE]
     IN /\ rg_savers' = Append(old, SampleSaverNew(rg_th[t].part,
                                                   SinkerIdOf(t)))
        /\ rg_map' = new
        /\ rg_th' = [rg_th EXCEPT ![t].pc = "sinking", ![t].reg = new]
  /\ UNCHANGED <<rg_host, rg_inter, rg_sorted, rg_completed, rg_facts>>
  /\ UNCHANGED <<heapVars, sinkerVars, serverVars, fxVars>>

\* SampleSaverWorker::run of the workers of saver s: File::create(filename)
\* creates or truncates path/<i>.grid.
WorkersCreate(s) ==
  /\ s \in 1..Len(rg_savers)
  /\ rg_savers[s].workers = "spawned"
  /\ rg_savers' = [rg_savers EXCEPT ![s].workers = "running"]
  /\ rg_inter' = s
  /\ UNCHANGED <<rg_host, rg_map, rg_th, rg_sorted, rg_completed, rg_facts>>
  /\ UNCHANGED <<heapVars, sinkerVars, serverVars, fxVars>>

\* The workers of saver s see the closed channel and set Success.
WorkersEnd(s) ==
  /\ s \in 1..Len(rg_savers)
  /\ rg_savers[s].workers = "running"
  /\ rg_savers[s].closed
  /\ rg_savers' = [rg_savers EXCEPT ![s].workers = "done"]
  /\ UNCHANGED <<rg_host, rg_map, rg_th, rg_inter, rg_sorted, rg_completed,
                 rg_facts>>
  /\ UNCHANGED <<heapVars, sinkerVars, serverVars, fxVars>>

\* GridSinker::run calls sink_grid_sample; the handler does
\* sample_savers.get(path_id) and saver.process(req).  On an error response
\* run returns through `?`.
SinkCall(t) ==
  /\ rg_th[t].pc = "sinking"
  /\ rg_th[t].nsink < MaxSinks
  /\ IF rg_map # 0 /\ ~rg_savers[rg_map].closed
     THEN /\ rg_savers' = [rg_savers EXCEPT
                             ![rg_map].parts = @ \cup {rg_th[t].part}]
          /\ rg_th' = [rg_th EXCEPT ![t].nsink = @ + 1]
     ELSE /\ rg_th' = [rg_th EXCEPT ![t].pc = "ended"]
          /\ UNCHANGED rg_savers
  /\ UNCHANGED <<rg_host, rg_map, rg_inter, rg_sorted, rg_completed,
                 rg_facts>>
  /\ UNCHANGED <<heapVars, sinkerVars, serverVars, fxVars>>

\* GridSinker::run calls finish_sink_partition, at a crossing or at its end,
\* in both cases after a sink_grid_sample that succeeded;
\* the handler does sample_savers.get(path_id) and, in the Some arm,
\* saver.finish_partition(sinker_id).
FinishGet(t, cross) ==
  /\ rg_th[t].pc = "sinking"
  /\ rg_th[t].nsink >= 1
  /\ cross => rg_th[t].ncross < MaxCross
  /\ rg_facts' = rg_facts \cup {"finish_called"}
  /\ IF rg_map # 0
     THEN /\ rg_savers' = [rg_savers EXCEPT
                             ![rg_map].sinker_ids = @ \ {SinkerIdOf(t)}]
          /\ rg_th' = [rg_th EXCEPT
                         ![t].pc = "fin_test", ![t].ref = rg_map,
                         ![t].cross = cross,
                         ![t].ncross = IF cross THEN @ + 1 ELSE @]
     ELSE /\ rg_th' = [rg_th EXCEPT ![t].pc = "ended"]
          /\ UNCHANGED rg_savers
  /\ UNCHANGED <<rg_host, rg_map, rg_inter, rg_sorted, rg_completed>>
  /\ UNCHANGED <<heapVars, sinkerVars, serverVars, fxVars>>

\* Where run goes on when finish_sink_partition has returned success.
AfterFinish(t) == IF rg_th[t].cross THEN "cross" ELSE "ended"

\* if saver.is_sinkers_done() { saver.close_sender(); .. }; otherwise the
\* success response.
FinishTest(t) ==
  /\ rg_th[t].pc = "fin_test"
  /\ LET s == rg_th[t].ref
     IN IF rg_savers[s].sinker_ids = {}
        THEN /\ rg_savers' = [rg_savers EXCEPT ![s].closed = TRUE]
             /\ rg_th' = [rg_th EXCEPT ![t].pc = "fin_wait"]
        ELSE /\ rg_th' = [rg_th EXCEPT ![t].pc = AfterFinish(t),
                                       ![t].ref = 0]
             /\ UNCHANGED rg_savers
  /\ UNCHANGED <<rg_host, rg_map, rg_inter, rg_sorted, rg_completed,
                 rg_facts>>
  /\ UNCHANGED <<heapVars, sinkerVars, serverVars, fxVars>>

\* The wait for is_workers_done() ends and merge_sort starts.
FinishMergeBegin(t) ==
  /\ rg_th[t].pc = "fin_wait"
  /\ rg_savers[rg_th[t].ref].workers = "done"
  /\ rg_savers' = [rg_savers EXCEPT ![rg_th[t].ref].nmerge = @ + 1]
  /\ rg_th' = [rg_th EXCEPT ![t].pc = "fin_merge"]
  /\ UNCHANGED <<rg_host, rg_map, rg_inter, rg_sorted, rg_completed,
                 rg_facts>>
  /\ UNCHANGED <<heapVars, sinkerVars, serverVars, fxVars>>

\* merge_sort has written the files of path_sorted and returns Ok.
FinishMergeEnd(t) ==
  /\ rg_th[t].pc = "fin_merge"
  /\ rg_sorted' = rg_th[t].ref
  /\ rg_th' = [rg_th EXCEPT ![t].pc = "fin_remove"]
  /\ UNCHANGED <<rg_host, rg_map, rg_savers, rg_inter, rg_completed,
                 rg_facts>>
  /\ UNCHANGED <<heapVars, sinkerVars, serverVars, fxVars>>

\* is_done: sample_savers.remove(path_id), and the success response.
FinishRemoveSaver(t) ==
  /\ rg_th[t].pc = "fin_remove"
  /\ \A u \in Threads : ~HoldsRef(u)
  /\ rg_map' = 0
  /\ rg_savers' = IF rg_map = 0
                  THEN rg_savers
                  ELSE [rg_savers EXCEPT ![rg_map].closed = TRUE]
  /\ rg_completed' = rg_completed \cup {rg_th[t].ref}
  /\ rg_th' = [rg_th EXCEPT ![t].pc = AfterFinish(t), ![t].ref = 0]
  /\ UNCHANGED <<rg_host, rg_inter, rg_sorted, rg_facts>>
  /\ UNCHANGED <<heapVars, sinkerVars, serverVars, fxVars>>

RegistryNext ==
  \/ \E t \in Threads : \E p \in Parts : StartGet(t, p)
  \/ \E t \in Threads : StartInsert(t)
  \/ \E s \in 1..(2 * NumThreads) : WorkersCreate(s)
  \/ \E s \in 1..(2 * NumThreads) : WorkersEnd(s)
  \/ \E t \in Threads : SinkCall(t)
  \/ \E t \in Threads : \E cross \in BOOLEAN : FinishGet(t, cross)
  \/ \E t \in Threads : FinishTest(t)
  \/ \E t \in Threads : FinishMergeBegin(t)
  \/ \E t \in Threads : FinishMergeEnd(t)
  \/ \E t \in Threads : FinishRemoveSaver(t)

SpecRegistry == RegistryInit /\ [][RegistryNext]_vars

\* The threads whose start_sink_partition has returned success and that have
\* not yet called finish_sink_partition.
Sending == {t \in Threads : rg_th[t].pc = "sinking"}

\* C32: one saver per (path, partition_index).  Every start_sink_partition a
\* saver has registered and every sink_grid_sample it has passed to its
\* workers carries the partition_index the saver was created with.
C32_OnePartitionPerSaver ==
  \A s \in 1..Len(rg_savers) :
     rg_savers[s].parts = {rg_savers[s].partition_index}

\* C33: partitions do not share a directory.  Once a partition has been
\* completed, no step creates the intermediate files under path again, or
\* writes the files under path_sorted, for a saver of another partition.
C33_SeparateDirectories ==
  [][\A s \in rg_completed :
       /\ rg_inter' # rg_inter =>
            rg_savers'[rg_inter'].partition_index
              = rg_savers[s].partition_index
       /\ rg_sorted' # rg_sorted =>
            rg_savers'[rg_sorted'].partition_index
              = rg_savers[s].partition_index]_vars

\* C34: one sinker id per producer thread.  GridSinker instances that run
\* at the same time have different sinker_ids; while a thread is sending,
\* its sinker_id is registered in the saver it registered with and the
\* channel of that saver is open.
C34_SinkerIdPerThread ==
  /\ \A t, u \in Threads :
       (t # u /\ rg_th[t].pc \notin {"idle", "ended"}
              /\ rg_th[u].pc \notin {"idle", "ended"})
         => SinkerIdOf(t) # SinkerIdOf(u)
  /\ \A t \in Sending :
       /\ SinkerIdOf(t) \in rg_savers[rg_th[t].reg].sinker_ids
       /\ ~rg_savers[rg_th[t].reg].closed

\* C38: concurrent first starts.  While no finish_sink_partition has been
\* called, the start calls have made a single SampleSaver, sample_savers
\* holds it, and every sinker whose start has returned is registered in it.
C38_ConcurrentFirstStarts ==
  "finish_called" \notin rg_facts =>
    /\ Len(rg_savers) <= 1
    /\ \A t \in Sending :
         /\ rg_map # 0
         /\ SinkerIdOf(t) \in rg_savers[rg_map].sinker_ids

\* C39: the merge runs once.  merge_sort is started at most once for a
\* saver, and no two handlers are in merge_sort of the same saver.
C39_MergeOnce ==
  \A s \in 1..Len(rg_savers) :
     /\ rg_savers[s].nmerge <= 1
     /\ Cardinality({t \in Threads : rg_th[t].pc = "fin_merge"
                                      /\ rg_th[t].ref = s}) <= 1

====
